---- MODULE Spec2Model ----
(***************************************************************************)
(* Model of the UI-definition synchronisation of veloce-sfdx-v3:           *)
(*   - the content transport codec (gzip + base64 twice on push,           *)
(*     base64 once + gunzip on pull),                                      *)
(*   - the tree serializer (saveUiDefinition / saveElement and the legacy  *)
(*     saveLegacyUiDefinition / saveLegacySections / saveLegacySectionFiles),*)
(*   - the pull orchestrator pullUI,                                       *)
(*   - the push orchestrator pushUI.                                       *)
(* Four specifications share the module: Spec (pull), SpecPush, SpecCodec  *)
(* and SpecSave; each leaves the variables of the others idle.             *)
(***************************************************************************)
EXTENDS Integers, Sequences, FiniteSets, TLC

VARIABLES
  \* ---- codec
  plain,        \* the JSON text handed to the encoder (sequence of bytes)
  wire,         \* what pushUI stores as the document body
  received,     \* what conn.request returns to the decoder
  decoded,      \* result of the decoder: [ok, data]
  codecPc,      \* "off" | "plain" | "encoded" | "received" | "decoded"
  strips,       \* how many base64 layers the transport removed (0 or 1)
  \* ---- serializer
  saveUi,       \* the UiDef handed to the serializer
  saveFs,       \* the filesystem: [dirs, files]
  saveMeta,     \* legacyMetadataArray of the record
  savePc,       \* "off" | "ready" | "saved" | "threw"
  \* ---- pull
  dumpAll,      \* parameter dumpAll of pullUI
  uisToDump,    \* parameter uisToDump, each entry as split(':') renders it
  remoteModels, \* the product model records of the org
  pullBatch,    \* uiDefProductModels
  fetchSt,      \* per record of the batch: "pending" | "ok" | "failed"
  pullPc,       \* "off" | "start" | "fetching" | "processing" | "done" | "rejected"
  pullErr,      \* what rejected the pull: "" | "fetch" | "serialize"
  pullIdx,      \* position of contents.forEach
  pullFs,       \* the filesystem
  pullLog,      \* console.log lines
  uiPmsToDump,  \* the returned set
  \* ---- push
  pushBatch,    \* productModels
  remoteFolder, \* id of the folder velo_product_models in the org, NoId if absent
  remoteDocs,   \* ids of the documents of the org
  folderId,     \* the local folderId of pushUI
  pushPc,       \* "off" | "start" | "fetchFolder" | "createFolder" | "fanout" |
                \* "awaiting" | "resolved" | "rejected"
  pushErr,      \* what rejected the push: "" | "folder" | "pack" | "task"
  taskPc,       \* per record: "unstarted" | "lookup" | "write" | "done" | "failed"
  calls,        \* the remote calls issued so far
  \* ---- inclusion filter of the two pulls
  members,      \* the selection, each member as split(':') renders it:
                \* <<type, model>> or <<type, model, definition>>
  filterRecord, \* a product model record of the org and its definitions
  libIncluded,  \* positions of the definitions pullUI includes
  cliIncluded,  \* positions of the definitions Pull.fetchUiDefinitions includes
  libPc,        \* "off" | "ready" | "done"
  cliPc,        \* "off" | "ready" | "pml" | "done" | "rejected"
  pmlDocument,  \* the record's PML document: "ok" | "missing" | "corrupt"
  cliFiles      \* the files Pull.fetchPml wrote

pushVars == <<pushBatch, remoteFolder, remoteDocs, folderId, pushPc, pushErr, taskPc, calls>>
pullVars == <<dumpAll, uisToDump, remoteModels, pullBatch, fetchSt, pullPc, pullErr,
              pullIdx, pullFs, pullLog, uiPmsToDump>>
saveVars == <<saveUi, saveFs, saveMeta, savePc>>
codecVars == <<plain, wire, received, decoded, codecPc, strips>>
filterVars == <<members, filterRecord, libIncluded, cliIncluded, libPc, cliPc,
                pmlDocument, cliFiles>>

(***************************************************************************)
(* Bounds of the model.                                                    *)
(***************************************************************************)
MaxPlainLen == 3
MaxChildren == 2
MaxSections == 3
MaxBatch == 3
MaxMembers == 3
MaxDefs == 2

(***************************************************************************)
(* JavaScript values shared by all parts.                                  *)
(***************************************************************************)
\* Strings are strings; undefined and null are values of their own, apart
\* from every string, blob, object and array an object's field can hold. A
\* comparison that may meet one of them has it on the left or goes through
\* StrictEq.
UNDEF == <<<<>>, <<"undefined">>>>
NULL == <<<<>>, <<"null">>>>

\* v is undefined or null
Nullish(v) == UNDEF = v \/ NULL = v

\* a === b
StrictEq(a, b) ==
  IF Nullish(a) THEN a = b
  ELSE IF Nullish(b) THEN FALSE
  ELSE a = b

\* `${v}`: undefined and null render as the texts "undefined" and "null"
Render(v) ==
  IF UNDEF = v THEN "undefined"
  ELSE IF NULL = v THEN "null"
  ELSE v

(***************************************************************************)
(* CONTENT TRANSPORT CODEC                                                 *)
(***************************************************************************)
\* Bytes of the plain text the codec is exercised with: [ ] " a
PlainAlphabet == {91, 93, 34, 97}

\* "[[[[[[": a run the compressor codes as one literal and one match
BracketsText ==
  <<91, 91, 91, 91, 91, 91>>

\* JSON.stringify([{name: "Main", children: []}], null, 2): repeated
\* indentation and keys, one block of fixed codes with matches
EmptyDocumentText ==
  <<91, 10, 32, 32, 123, 10, 32, 32, 32, 32, 34, 110, 97, 109, 101, 34, 58,
    32, 34, 77, 97, 105, 110, 34, 44, 10, 32, 32, 32, 32, 34, 99, 104, 105,
    108, 100, 114, 101, 110, 34, 58, 32, 91, 93, 10, 32, 32, 125, 10, 93>>

\* JSON.stringify([{name: "Main",
\*   template: '<div class="cart"><span>{{name}}</span></div>',
\*   children: []}], null, 2): one block with codes of its own
TemplateDocumentText ==
  <<91, 10, 32, 32, 123, 10, 32, 32, 32, 32, 34, 110, 97, 109, 101, 34, 58,
    32, 34, 77, 97, 105, 110, 34, 44, 10, 32, 32, 32, 32, 34, 116, 101, 109,
    112, 108, 97, 116, 101, 34, 58, 32, 34, 60, 100, 105, 118, 32, 99, 108,
    97, 115, 115, 61, 92, 34, 99, 97, 114, 116, 92, 34, 62, 60, 115, 112,
    97, 110, 62, 123, 123, 110, 97, 109, 101, 125, 125, 60, 47, 115, 112,
    97, 110, 62, 60, 47, 100, 105, 118, 62, 34, 44, 10, 32, 32, 32, 32, 34,
    99, 104, 105, 108, 100, 114, 101, 110, 34, 58, 32, 91, 93, 10, 32, 32,
    125, 10, 93>>

\* JSON.stringify of a text of six three-byte characters: the UTF-8 bytes
\* do not compress and the block is stored
WideCharsText ==
  <<34, 228, 184, 173, 230, 150, 135, 229, 173, 151, 231, 172, 166, 230,
    184, 172, 232, 169, 166, 34>>

\* Documents long enough for matches and for each kind of block
DocumentTexts ==
  {BracketsText, EmptyDocumentText, TemplateDocumentText, WideCharsText}

RECURSIVE SeqsUpTo(_, _)
SeqsUpTo(S, n) ==
  IF n = 0 THEN {<<>>}
  ELSE LET shorter == SeqsUpTo(S, n - 1)
       IN  shorter \cup {Append(s, x) : s \in {t \in shorter : Len(t) = n - 1}, x \in S}

\* ASCII code of the base64 digit with value v (0..63)
B64Char(v) ==
  IF v < 26 THEN 65 + v
  ELSE IF v < 52 THEN 97 + (v - 26)
  ELSE IF v < 62 THEN 48 + (v - 52)
  ELSE IF v = 62 THEN 43 ELSE 47

\* value of the base64 digit with ASCII code c, -1 when c is no digit; the
\* decoder also takes the digits - and _ of the URL-safe alphabet
B64Val(c) ==
  IF c >= 65 /\ c <= 90 THEN c - 65
  ELSE IF c >= 97 /\ c <= 122 THEN c - 97 + 26
  ELSE IF c >= 48 /\ c <= 57 THEN c - 48 + 52
  ELSE IF c = 43 \/ c = 45 THEN 62
  ELSE IF c = 47 \/ c = 95 THEN 63
  ELSE -1

B64Pad == 61

\* Loop(loop, ctx, s, k): the state in which the loop named loop ends when
\* it starts in the state s, ctx being what the loop reads and leaves alone
\* and k a number of rounds within which it ends
RECURSIVE Loop(_, _, _, _)

Min(a, b) == IF a <= b THEN a ELSE b
Max(a, b) == IF a >= b THEN a ELSE b

\* the sum of the numbers s[lo..hi]
RECURSIVE SumRange(_, _, _)
SumRange(s, lo, hi) ==
  IF lo > hi THEN 0
  ELSE IF lo = hi THEN s[lo]
  ELSE SumRange(s, lo, (lo + hi) \div 2) + SumRange(s, (lo + hi) \div 2 + 1, hi)

SumSeq(s) == SumRange(s, 1, Len(s))

\* the sequences seqs[lo..hi] one after the other
RECURSIVE FlattenRange(_, _, _)
FlattenRange(seqs, lo, hi) ==
  IF lo > hi THEN <<>>
  ELSE IF lo = hi THEN seqs[lo]
  ELSE FlattenRange(seqs, lo, (lo + hi) \div 2) \o FlattenRange(seqs, (lo + hi) \div 2 + 1, hi)

Flatten(seqs) == FlattenRange(seqs, 1, Len(seqs))

\* the j-th digit (counted from 0) of the base64 text of bytes: three bytes
\* to four digits, '=' where the bytes have ended
ToBase64Digit(bytes, j) ==
  LET at == 3 * (j \div 4)
      b1 == bytes[at + 1]
      b2 == IF at + 2 <= Len(bytes) THEN bytes[at + 2] ELSE 0
      b3 == IF at + 3 <= Len(bytes) THEN bytes[at + 3] ELSE 0
  IN  IF j % 4 = 0 THEN B64Char(b1 \div 4)
      ELSE IF j % 4 = 1 THEN B64Char((b1 % 4) * 16 + b2 \div 16)
      ELSE IF j % 4 = 2
        THEN (IF at + 2 <= Len(bytes) THEN B64Char((b2 % 16) * 4 + b3 \div 64) ELSE B64Pad)
      ELSE IF at + 3 <= Len(bytes) THEN B64Char(b3 % 64) ELSE B64Pad

\* buf.toString('base64')
ToBase64(bytes) ==
  SubSeq([j \in 1..(4 * ((Len(bytes) + 2) \div 3)) |-> ToBase64Digit(bytes, j - 1)],
         1, 4 * ((Len(bytes) + 2) \div 3))

\* the digits of a base64 text up to the first '=', other characters skipped
B64Digits(text) ==
  LET pads == {i \in 1..Len(text) : text[i] = B64Pad}
      stop == IF pads = {} THEN Len(text) + 1 ELSE CHOOSE i \in pads : \A k \in pads : i <= k
      IsDigit(c) == B64Val(c) >= 0
      digits == SelectSeq(SubSeq(text, 1, stop - 1), IsDigit)
  IN  SubSeq([i \in 1..Len(digits) |-> B64Val(digits[i])], 1, Len(digits))

\* the j-th byte (counted from 0) of the digits d: four digits to three
\* bytes
B64Byte(d, j) ==
  LET at == 4 * (j \div 3)
  IN  IF j % 3 = 0 THEN d[at + 1] * 4 + d[at + 2] \div 16
      ELSE IF j % 3 = 1 THEN (d[at + 2] % 16) * 16 + d[at + 3] \div 4
      ELSE (d[at + 3] % 4) * 64 + d[at + 4]

\* the whole bytes the digits hold
B64Bytes(d) ==
  SubSeq([j \in 1..((6 * Len(d)) \div 8) |-> B64Byte(d, j - 1)], 1, (6 * Len(d)) \div 8)

\* Buffer.from(text, 'base64')
BufferFromBase64(text) == B64Bytes(B64Digits(text))

\* little-endian rendering of n in k bytes
LittleEndian(n, k) == SubSeq([i \in 1..k |-> (n \div 256^(i - 1)) % 256], 1, k)

\* the n low bits of v, least significant first
Lsb(v, n) == SubSeq([i \in 1..n |-> (v \div 2^(i - 1)) % 2], 1, n)

\* the n low bits of v, most significant first (the order of Huffman codes)
Msb(v, n) == SubSeq([i \in 1..n |-> (v \div 2^(n - i)) % 2], 1, n)

\* the value of a bit sequence, least significant first
LsbValue(bits) ==
  SumSeq(SubSeq([i \in 1..Len(bits) |-> bits[i] * 2^(i - 1)], 1, Len(bits)))

\* the value of a bit sequence, most significant first
MsbValue(bits) ==
  SumSeq(SubSeq([i \in 1..Len(bits) |-> bits[i] * 2^(Len(bits) - i)], 1, Len(bits)))

\* the bits of a byte sequence, each byte least significant bit first
BitsOf(bytes) ==
  SubSeq([i \in 1..(8 * Len(bytes)) |-> (bytes[(i - 1) \div 8 + 1] \div 2^((i - 1) % 8)) % 2],
         1, 8 * Len(bytes))

\* the bytes of a bit sequence, the last byte padded with zero bits
PackBits(bits) ==
  SubSeq([j \in 1..((Len(bits) + 7) \div 8) |->
            LsbValue([k \in 1..8 |->
                        IF 8 * (j - 1) + k <= Len(bits) THEN bits[8 * (j - 1) + k] ELSE 0])],
         1, (Len(bits) + 7) \div 8)

\* bitwise exclusive or of two bit sequences of the same length
Xor(a, b) == SubSeq([i \in 1..Len(a) |-> (a[i] + b[i]) % 2], 1, Len(a))

\* the reflected CRC-32 polynomial edb88320, least significant bit first
Crc32Poly == Lsb(33568, 16) \o Lsb(60856, 16)

\* one bit step of a CRC register with the polynomial poly
CrcShift(crc, poly) ==
  IF crc[1] = 1 THEN Xor(Append(Tail(crc), 0), poly)
  ELSE Append(Tail(crc), 0)

\* k bit steps of a CRC register with the polynomial poly
CrcSteps(crc, poly, k) == Loop("crc", poly, [crc |-> crc, left |-> k], k).crc

\* the CRC-32 register after one more byte
Crc32Byte(crc, byte) ==
  CrcSteps(Xor(crc, Lsb(byte, 8) \o [i \in 1..24 |-> 0]), Crc32Poly, 8)

\* one round of crc32: the register s.crc takes the byte s.i of data
Crc32Round(data, s) == [crc |-> Crc32Byte(s.crc, data[s.i]), i |-> s.i + 1]

\* crc32(data) as its four bytes, least significant first
Crc32(data) ==
  PackBits(Xor(Loop("crc32", data, [crc |-> [i \in 1..32 |-> 1], i |-> 1], Len(data)).crc,
               [i \in 1..32 |-> 1]))

\* base length and number of extra bits of the length codes 257..285
LengthBase ==
  <<3, 4, 5, 6, 7, 8, 9, 10, 11, 13, 15, 17, 19, 23, 27, 31, 35, 43, 51, 59, 67, 83, 99,
    115, 131, 163, 195, 227, 258>>
LengthExtra ==
  <<0, 0, 0, 0, 0, 0, 0, 0, 1, 1, 1, 1, 2, 2, 2, 2, 3, 3, 3, 3, 4, 4, 4, 4, 5, 5, 5, 5, 0>>

\* base distance and number of extra bits of the distance codes 0..29
DistBase ==
  <<1, 2, 3, 4, 5, 7, 9, 13, 17, 25, 33, 49, 65, 97, 129, 193, 257, 385, 513, 769, 1025,
    1537, 2049, 3073, 4097, 6145, 8193, 12289, 16385, 24577>>
DistExtra ==
  <<0, 0, 0, 0, 1, 1, 2, 2, 3, 3, 4, 4, 5, 5, 6, 6, 7, 7, 8, 8, 9, 9, 10, 10, 11, 11, 12,
    12, 13, 13>>

(***************************************************************************)
(* gzipSync: deflate as zlib computes it at its default level 6            *)
(* (deflate_slow), for data that fits the window before it first slides.   *)
(* A loop of zlib is a round, an operator on the state of the loop, that   *)
(* Loop repeats until the loop ends.                                       *)
(***************************************************************************)
\* shortest and longest match, window size, and the farthest match
MinMatch == 3
MaxMatch == 258
WSize == 32768
MaxDist == WSize - (MaxMatch + MinMatch + 1)

\* a match of MinMatch bytes farther back than this is dropped
TooFar == 4096

\* configuration_table[6]: good_length, max_lazy, nice_length, max_chain
GoodLength == 8
MaxLazy == 16
NiceLength == 128
MaxChainLength == 128

\* bits of the string hash, and symbols a block holds before it is flushed
HashBits == 15
LitBufSize == 16384

\* window[p], p counted from 0; the window is zero behind the data
WindowByte(data, p) == IF p < Len(data) THEN data[p + 1] ELSE 0

\* the four bytes at p read as a little-endian number, plus one, in 32
\* bits; the number is kept as its two 16-bit halves
HashLoad(data, p) ==
  LET lo == WindowByte(data, p) + 256 * WindowByte(data, p + 1) + 1
      hi == WindowByte(data, p + 2) + 256 * WindowByte(data, p + 3)
  IN  [lo |-> lo % 65536, hi |-> (hi + lo \div 65536) % 65536]

\* insert_string: the hash of the string at p is
\* (((v + 1) * 66521) >> 16) & hash_mask in 32 bits, v the four bytes at p
\* read little-endian. With 66521 = 65536 + 985 and v + 1 = lo + 65536 * hi
\* the bits 16 to 31 of the product are those of
\* (lo * 985) >> 16, plus lo, plus hi * 985
InsertHash(data, p) ==
  LET v == HashLoad(data, p)
  IN  ((v.lo * 985) \div 65536 + v.lo + v.hi * 985) % (2 ^ HashBits)

\* the hash of every position that is inserted: those followed by at least
\* MinMatch bytes; hashes[p + 1] is the hash of position p
Hashes(data) ==
  SubSeq([i \in 1..(Len(data) - MinMatch + 1) |-> InsertHash(data, i - 1)],
         1, Len(data) - MinMatch + 1)

\* the hash chain of position strstart: the earlier positions with its
\* hash, the nearest first; position 0 is NIL and ends every chain
Chain(hashes, strstart) ==
  LET Same(q) == hashes[q + 1] = hashes[strstart + 1]
  IN  SelectSeq(SubSeq([i \in 1..(strstart - 1) |-> strstart - i], 1, strstart - 1), Same)

\* the bytes the strings at m and s have in common, at most MaxMatch
CommonPrefix(data, m, s) ==
  LET differ == {l \in 0..(MaxMatch - 1) : WindowByte(data, m + l) # WindowByte(data, s + l)}
  IN  IF differ = {} THEN MaxMatch ELSE CHOOSE l \in differ : \A k \in differ : l <= k

\* longest_match: one round of its loop, on the i-th position of the chain
LongestMatchStep(data, chain, strstart, maxChain, s) ==
  LET nice == Min(NiceLength, Len(data) - strstart)
      limit == IF strstart > MaxDist THEN strstart - MaxDist ELSE 0
      Compared(len) ==
        [i |-> s.i + 1,
         len |-> IF len > s.len THEN len ELSE s.len,
         start |-> IF len > s.len THEN chain[s.i] ELSE s.start,
         done |-> IF len > s.len /\ len >= nice THEN TRUE
                  ELSE IF s.i = Len(chain) \/ s.i = maxChain THEN TRUE
                  ELSE chain[s.i + 1] <= limit]
  IN  Compared(CommonPrefix(data, chain[s.i], strstart))

\* longest_match: [len, start], start being match_start afterwards; the
\* chain is followed for max_chain_length positions, a quarter of it after
\* a good match
LongestMatch(data, chain, strstart, prevLength, matchStart) ==
  LET maxChain == IF prevLength >= GoodLength THEN MaxChainLength \div 4 ELSE MaxChainLength
      Found(s) == [len |-> Min(s.len, Len(data) - strstart), start |-> s.start]
  IN  Found(Loop("longest_match",
                 [data |-> data, chain |-> chain, strstart |-> strstart, maxChain |-> maxChain],
                 [i |-> 1, len |-> prevLength, start |-> matchStart, done |-> FALSE],
                 maxChain))

\* _tr_tally: a literal has dist 0 and the byte as lc, a match its distance
\* and its length less MinMatch
TallyLit(c) == [dist |-> 0, lc |-> c]
TallyDist(dist, len) == [dist |-> dist, lc |-> len - MinMatch]

\* deflate_slow: one round of its loop, with lazy evaluation of matches
DeflateSlowStep(data, hashes, s) ==
  LET Tallied(found, len) ==
        IF s.matchLength >= MinMatch /\ len <= s.matchLength
        THEN [strstart |-> s.strstart + s.matchLength - 1,
              matchLength |-> MinMatch - 1,
              matchStart |-> found.start,
              matchAvailable |-> FALSE,
              toks |-> Append(s.toks, TallyDist(s.strstart - 1 - s.matchStart, s.matchLength))]
        ELSE [strstart |-> s.strstart + 1,
              matchLength |-> len,
              matchStart |-> found.start,
              matchAvailable |-> TRUE,
              toks |-> IF s.matchAvailable
                       THEN Append(s.toks, TallyLit(WindowByte(data, s.strstart - 1)))
                       ELSE s.toks]
      Found(found) ==
        Tallied(found, IF found.len = MinMatch /\ s.strstart - found.start > TooFar
                       THEN MinMatch - 1 ELSE found.len)
      Searched(chain) ==
        Found(IF Len(chain) # 0 /\ s.matchLength < MaxLazy /\ s.strstart - chain[1] <= MaxDist
              THEN LongestMatch(data, chain, s.strstart, s.matchLength, s.matchStart)
              ELSE [len |-> MinMatch - 1, start |-> s.matchStart])
  IN  Searched(IF Len(data) - s.strstart >= MinMatch /\ s.strstart >= 1
               THEN Chain(hashes, s.strstart) ELSE <<>>)

\* deflate_slow: the symbols tallied for data, [toks, available]; the loop
\* ends with the data, the byte that is still pending after it is tallied
\* as a literal, and available tells that it was
DeflateSlow(data) ==
  LET Ended(s) ==
        [toks |-> IF s.matchAvailable
                  THEN Append(s.toks, TallyLit(WindowByte(data, s.strstart - 1)))
                  ELSE s.toks,
         available |-> s.matchAvailable]
  IN  Ended(Loop("deflate_slow", [data |-> data, hashes |-> Hashes(data)],
                 [strstart |-> 0, matchLength |-> MinMatch - 1, matchStart |-> 0,
                  matchAvailable |-> FALSE, toks |-> <<>>], Len(data)))

\* extra bits of the codes of the bit length code, and the order in which
\* their lengths are sent
ExtraBlBits == <<0, 0, 0, 0, 0, 0, 0, 0, 0, 0, 0, 0, 0, 0, 0, 0, 2, 3, 7>>
BlOrder == <<16, 17, 18, 0, 8, 7, 9, 6, 10, 5, 11, 4, 12, 3, 13, 2, 14, 1, 15>>

\* number of literal/length codes, distance codes and bit length codes;
\* the end-of-block symbol; the longest code of a tree and of the bit
\* length tree
LCodes == 286
DCodes == 30
BlCodes == 19
EndBlock == 256
MaxBits == 15
MaxBlBits == 7

\* static_ltree and static_dtree: the code lengths of the fixed codes
StaticLLens ==
  [i \in 1..(LCodes + 2) |->
     IF i <= 144 THEN 8 ELSE IF i <= 256 THEN 9 ELSE IF i <= 280 THEN 7 ELSE 8]
StaticDLens == [i \in 1..DCodes |-> 5]

\* the length code (0..28) of a match length, the distance code (0..29) of
\* a distance
LengthCode(len) ==
  CHOOSE c \in 0..28 : LengthBase[c + 1] <= len /\ (c = 28 \/ LengthBase[c + 2] > len)
DistCode(dist) ==
  CHOOSE c \in 0..29 : DistBase[c + 1] <= dist /\ (c = 29 \/ DistBase[c + 2] > dist)

\* the literal/length symbol of a tallied symbol
LSymbol(tok) == IF tok.dist = 0 THEN tok.lc ELSE EndBlock + 1 + LengthCode(tok.lc + MinMatch)

\* the frequencies of the literal/length symbols and of the distance codes
\* of a block; freq[n + 1] is the frequency of n
LFreq(toks) ==
  LET syms == SubSeq([i \in 1..Len(toks) |-> LSymbol(toks[i])], 1, Len(toks))
  IN  SubSeq([i \in 1..LCodes |->
                IF i - 1 = EndBlock THEN 1
                ELSE Cardinality({k \in 1..Len(syms) : syms[k] = i - 1})], 1, LCodes)
DFreq(toks) ==
  LET syms == SubSeq([i \in 1..Len(toks) |->
                       IF toks[i].dist = 0 THEN -1 ELSE DistCode(toks[i].dist)], 1, Len(toks))
  IN  SubSeq([i \in 1..DCodes |-> Cardinality({k \in 1..Len(syms) : syms[k] = i - 1})],
             1, DCodes)

\* smaller(tree, n, m, depth)
Smaller(t, n, m) ==
  t.freq[n] < t.freq[m] \/ (t.freq[n] = t.freq[m] /\ t.depth[n] <= t.depth[m])

\* pqdownheap: one round of its loop; v, taken from the heap, is compared
\* with the smaller son of place s.k, which moves up unless v is smaller
PqSift(t, v, s) ==
  LET j == IF 2 * s.k < Len(s.heap)
           THEN (IF Smaller(t, s.heap[2 * s.k + 1], s.heap[2 * s.k]) THEN 2 * s.k + 1
                 ELSE 2 * s.k)
           ELSE 2 * s.k
  IN  IF 2 * s.k > Len(s.heap) THEN [heap |-> [s.heap EXCEPT ![s.k] = v], k |-> s.k, done |-> TRUE]
      ELSE IF Smaller(t, v, s.heap[j])
        THEN [heap |-> [s.heap EXCEPT ![s.k] = v], k |-> s.k, done |-> TRUE]
      ELSE [heap |-> [s.heap EXCEPT ![s.k] = s.heap[j]], k |-> j, done |-> FALSE]

\* pqdownheap: the node at place k of the heap sinks to its place
PqDownHeap(t, heap, k) ==
  Loop("pqdownheap", [t |-> t, v |-> heap[k]], [heap |-> heap, k |-> k, done |-> FALSE],
       Len(heap)).heap

\* build_tree: while the heap has fewer than two nodes, a symbol of
\* frequency 1 is forced in
RECURSIVE ForceNodes(_)
ForceNodes(t) ==
  IF Len(t.heap) >= 2 THEN t
  ELSE LET node == IF t.maxCode < 2 THEN t.maxCode + 1 ELSE 0
       IN  ForceNodes([t EXCEPT !.heap = Append(@, node),
                                !.freq[node] = 1,
                                !.maxCode = IF @ < 2 THEN @ + 1 ELSE @,
                                !.forced = Append(@, node)])

\* build_tree: one round of the loop that makes the heap, pqdownheap of
\* place s.k
Heapify(t, s) == [heap |-> PqDownHeap(t, s.heap, s.k), k |-> s.k - 1]

\* build_tree: the two least frequent nodes are joined under the new node
\* t.node; sorted lists the nodes as heap[heap_max..] does
JoinNodes(t) ==
  LET Joined(t1, h1) == [t1 EXCEPT !.heap = PqDownHeap(t1, [h1 EXCEPT ![1] = t.node], 1)]
      Least(n, m, h1) ==
        Joined([t EXCEPT !.freq[t.node] = t.freq[n] + t.freq[m],
                         !.depth[t.node] = Max(t.depth[n], t.depth[m]) + 1,
                         !.dad[n] = t.node,
                         !.dad[m] = t.node,
                         !.sorted = <<m, n>> \o @,
                         !.node = @ + 1], h1)
      Second(h1) == Least(t.heap[1], h1[1], h1)
  IN  Second(PqDownHeap(t, [SubSeq(t.heap, 1, Len(t.heap) - 1) EXCEPT
                              ![1] = t.heap[Len(t.heap)]], 1))

\* gen_bitlen: one round of its first loop; the length of the h-th node of
\* sorted is the length of its father plus one, at most maxLength
BitLengths(t, maxLength, s) ==
  [h |-> s.h + 1,
   len |-> [s.len EXCEPT ![t.sorted[s.h]] = Min(s.len[t.dad[t.sorted[s.h]]] + 1, maxLength)]]

\* gen_bitlen: one round of the loop over the overflowing leaves; a leaf
\* moves one level down and takes an overflowing leaf as its brother
FixOverflow(maxLength, s) ==
  LET bits == CHOOSE b \in 1..(maxLength - 1) :
                s.blCount[b] # 0 /\ \A c \in (b + 1)..(maxLength - 1) : s.blCount[c] = 0
  IN  [blCount |-> [[[s.blCount EXCEPT ![bits] = @ - 1] EXCEPT ![bits + 1] = @ + 2]
                      EXCEPT ![maxLength] = @ - 1],
       overflow |-> s.overflow - 2]

\* the lengths from maxLength down, each as often as blCount tells
LengthsDown(blCount, maxLength) ==
  Flatten(SubSeq([k \in 1..maxLength |->
                    SubSeq([i \in 1..blCount[maxLength + 1 - k] |-> maxLength + 1 - k],
                           1, blCount[maxLength + 1 - k])], 1, maxLength))
\* gen_bitlen: after an overflow the leaves take the lengths of down, the
\* last of sorted the longest
Relength(t, len, down) ==
  LET IsLeaf(n) == n <= t.maxCode
      leaves == SelectSeq(t.sorted, IsLeaf)
  IN  [n \in DOMAIN t.freq |->
         IF \E k \in 1..Len(leaves) : leaves[k] = n
         THEN down[Len(leaves) + 1 - (CHOOSE k \in 1..Len(leaves) : leaves[k] = n)]
         ELSE len[n]]

\* gen_bitlen: bl_count, the number of leaves of each length
BlCount(t, maxLength, len) ==
  [b \in 1..maxLength |->
     Cardinality({h \in 2..Len(t.sorted) :
                    t.sorted[h] <= t.maxCode /\ len[t.sorted[h]] = b})]

\* gen_bitlen: the lengths len stand unless overflow nodes were cut to
\* maxLength; then bl_count is mended and the leaves take new lengths
FitLengths(t, maxLength, len, overflow) ==
  IF overflow = 0 THEN len
  ELSE Relength(t, len,
         LengthsDown(Loop("overflow", maxLength,
                          [blCount |-> BlCount(t, maxLength, len), overflow |-> overflow],
                          overflow).blCount, maxLength))

\* gen_bitlen: the nodes whose length was cut to maxLength are counted
CountOverflow(t, maxLength, len) ==
  FitLengths(t, maxLength, len,
             Cardinality({h \in 2..Len(t.sorted) : len[t.dad[t.sorted[h]]] + 1 > maxLength}))

\* gen_bitlen: the lengths of all nodes of the tree; after an overflow the
\* leaves take the lengths blCount tells, the last of sorted the longest
GenBitlen(t, maxLength) ==
  CountOverflow(t, maxLength,
                Loop("gen_bitlen", [t |-> t, maxLength |-> maxLength],
                     [h |-> 2, len |-> [n \in DOMAIN t.freq |-> 0]], Len(t.sorted)).len)
\* build_tree: the tree of the symbols 0..elems-1 before its heap is made;
\* the nodes are the symbols and elems - 1 nodes above them, the heap holds
\* the symbols in use
TreeStart(freq, elems) ==
  LET InUse(n) == freq[n + 1] # 0
      used == SelectSeq(SubSeq([i \in 1..elems |-> i - 1], 1, elems), InUse)
  IN  ForceNodes([freq |-> [n \in 0..(2 * elems) |-> IF n < elems THEN freq[n + 1] ELSE 0],
                  depth |-> [n \in 0..(2 * elems) |-> 0],
                  dad |-> [n \in 0..(2 * elems) |-> 0],
                  heap |-> used,
                  sorted |-> <<>>,
                  maxCode |-> IF Len(used) = 0 THEN -1 ELSE used[Len(used)],
                  forced |-> <<>>,
                  node |-> elems])

\* build_tree: the heap is made, the least frequent node first
TreeHeap(t) ==
  [t EXCEPT !.heap = Loop("heapify", t, [heap |-> t.heap, k |-> Len(t.heap) \div 2],
                          Len(t.heap)).heap]

\* build_tree: the nodes are joined two by two until one is left, the root,
\* which is the first of sorted
TreeJoined(t) == Loop("join", <<>>, t, Len(t.heap))
TreeSorted(t) == [t EXCEPT !.sorted = <<t.heap[1]>> \o @]

\* build_tree and gen_bitlen: the lengths of the symbols, the largest
\* symbol in use, and the bits the tree adds to opt_len and to static_len
TreeCost(t, len, stree, extra, base, elems) ==
  LET XBits(n) == IF n >= base THEN extra[n - base + 1] ELSE 0
      IsLeaf(n) == t.freq[n] # 0
      leaves == SelectSeq(SubSeq([i \in 1..elems |-> i - 1], 1, elems), IsLeaf)
  IN  [len |-> SubSeq([i \in 1..elems |-> IF t.freq[i - 1] # 0 THEN len[i - 1] ELSE 0],
                      1, elems),
       maxCode |-> t.maxCode,
       optLen |-> SumSeq(SubSeq([k \in 1..Len(leaves) |->
                                   t.freq[leaves[k]] * (len[leaves[k]] + XBits(leaves[k]))],
                                1, Len(leaves)))
                  - Len(t.forced),
       staticLen |-> IF Len(stree) = 0 THEN 0
                     ELSE SumSeq(SubSeq([k \in 1..Len(leaves) |->
                                   t.freq[leaves[k]] * (stree[leaves[k] + 1] + XBits(leaves[k]))],
                                   1, Len(leaves)))
                          - SumSeq(SubSeq([k \in 1..Len(t.forced) |-> stree[t.forced[k] + 1]],
                                          1, Len(t.forced)))]

\* build_tree: gen_bitlen on the finished tree
TreeLengths(t, stree, extra, base, elems, maxLength) ==
  TreeCost(t, GenBitlen(t, maxLength), stree, extra, base, elems)

\* build_tree of the symbols 0..elems-1 with the frequencies freq:
\* the code lengths len (len[n + 1] of symbol n), the largest symbol in use
\* maxCode, and what the tree adds to opt_len and to static_len; stree are
\* the lengths of the static tree (none for the bit length tree), extra
\* and base the extra bits of the symbols from base on
BuildTree(freq, stree, extra, base, elems, maxLength) ==
  TreeLengths(TreeSorted(TreeJoined(TreeHeap(TreeStart(freq, elems)))),
              stree, extra, base, elems, maxLength)

\* gen_codes: next_code[bits], the first code of length bits, from the
\* lengths of the symbols 0..Len(lens)-1: every shorter code takes its
\* share of the codes of length bits
NextCode(lens, bits) ==
  SumSeq(SubSeq([b \in 1..(bits - 1) |->
                   Cardinality({i \in 1..Len(lens) : lens[i] = b}) * 2^(bits - b)],
                1, bits - 1))

\* gen_codes: the code of symbol n, most significant bit first as it is
\* sent
GenCode(lens, n) ==
  Msb(NextCode(lens, lens[n + 1])
      + Cardinality({i \in 1..n : lens[i] = lens[n + 1]}), lens[n + 1])

GenCodes(lens) == SubSeq([i \in 1..Len(lens) |-> GenCode(lens, i - 1)], 1, Len(lens))

\* the codes of static_ltree and static_dtree
StaticLCodes == GenCodes(StaticLLens)
StaticDCodes == GenCodes(StaticDLens)

\* scan_tree and send_tree: what a run of count equal lengths curlen is
\* coded as; [sym, extra, bits] is a symbol of the bit length code with its
\* extra bits
RunItems(curlen, prevlen, count, minCount) ==
  IF count < minCount THEN [i \in 1..count |-> [sym |-> curlen, extra |-> 0, bits |-> 0]]
  ELSE IF curlen # 0
    THEN IF curlen # prevlen
         THEN <<[sym |-> curlen, extra |-> 0, bits |-> 0],
                [sym |-> 16, extra |-> count - 4, bits |-> 2]>>
         ELSE <<[sym |-> 16, extra |-> count - 3, bits |-> 2]>>
  ELSE IF count <= 10 THEN <<[sym |-> 17, extra |-> count - 3, bits |-> 3]>>
  ELSE <<[sym |-> 18, extra |-> count - 11, bits |-> 7]>>

\* scan_tree and send_tree: one round of their loop, on the length of
\* symbol s.n
ScanTreeStep(lens, maxCode, s) ==
  LET curlen == lens[s.n + 1]
      nextlen == IF s.n + 1 <= maxCode THEN lens[s.n + 2] ELSE 65535
  IN  IF s.count + 1 < s.maxCount /\ curlen = nextlen
      THEN [s EXCEPT !.n = @ + 1, !.count = @ + 1]
      ELSE [n |-> s.n + 1,
            prevlen |-> curlen,
            count |-> 0,
            maxCount |-> IF nextlen = 0 THEN 138 ELSE IF curlen = nextlen THEN 6 ELSE 7,
            minCount |-> IF nextlen = 0 THEN 3 ELSE IF curlen = nextlen THEN 3 ELSE 4,
            out |-> s.out \o RunItems(curlen, s.prevlen, s.count + 1, s.minCount)]

\* scan_tree and send_tree: the run-length coding of the lengths of the
\* symbols 0..maxCode of a tree
ScanTree(tree) ==
  Loop("scan_tree", [lens |-> tree.len, maxCode |-> tree.maxCode],
    [n |-> 0, prevlen |-> -1, count |-> 0,
     maxCount |-> IF tree.len[1] = 0 THEN 138 ELSE 7,
     minCount |-> IF tree.len[1] = 0 THEN 3 ELSE 4,
     out |-> <<>>], tree.maxCode + 1).out

\* build_bl_tree: the tree of the bit length code for the two trees
BuildBlTree(items) ==
  BuildTree(SubSeq([i \in 1..BlCodes |->
                      Cardinality({k \in 1..Len(items) : items[k].sym = i - 1})], 1, BlCodes),
            <<>>, ExtraBlBits, 0, BlCodes, MaxBlBits)

\* build_bl_tree: the index in BlOrder of the last bit length code in use,
\* at least 3
MaxBlIndex(bltree) ==
  CHOOSE x \in 3..(BlCodes - 1) :
    /\ x = 3 \/ bltree.len[BlOrder[x + 1] + 1] # 0
    /\ \A y \in (x + 1)..(BlCodes - 1) : bltree.len[BlOrder[y + 1] + 1] = 0

\* send_tree for both trees: the codes of the items with their extra bits
SendTree(items, blcodes) ==
  Flatten(SubSeq([i \in 1..Len(items) |->
                    blcodes[items[i].sym + 1] \o Lsb(items[i].extra, items[i].bits)],
                 1, Len(items)))

\* send_all_trees: the counts, the lengths of the bit length codes in the
\* order BlOrder, three bits each, and the two trees
SendAllTrees(ltree, dtree, bltree, items) ==
  LET Sent(maxBlIndex) ==
        Lsb(ltree.maxCode + 1 - 257, 5) \o Lsb(dtree.maxCode + 1 - 1, 5)
        \o Lsb(maxBlIndex + 1 - 4, 4)
        \o Flatten([rank \in 1..(maxBlIndex + 1) |-> Lsb(bltree.len[BlOrder[rank] + 1], 3)])
        \o SendTree(items, GenCodes(bltree.len))
  IN  Sent(MaxBlIndex(bltree))

\* compress_block: the code of one symbol with its extra bits
SendSymbol(tok, lcodes, dcodes) ==
  IF tok.dist = 0 THEN lcodes[tok.lc + 1]
  ELSE LET lcode == LengthCode(tok.lc + MinMatch)
           dcode == DistCode(tok.dist)
       IN  lcodes[EndBlock + 1 + lcode + 1]
           \o Lsb(tok.lc + MinMatch - LengthBase[lcode + 1], LengthExtra[lcode + 1])
           \o dcodes[dcode + 1]
           \o Lsb(tok.dist - DistBase[dcode + 1], DistExtra[dcode + 1])

\* compress_block: the codes of the symbols, then the end-of-block code
CompressBlock(toks, lcodes, dcodes) ==
  Flatten(SubSeq([i \in 1..Len(toks) |-> SendSymbol(toks[i], lcodes, dcodes)], 1, Len(toks)))
  \o lcodes[EndBlock + 1]

\* _tr_stored_block: the block type, zero bits up to the byte boundary, LEN,
\* its complement, the bytes
TrStoredBlock(out, stored, last) ==
  out \o <<last, 0, 0>> \o [i \in 1..((8 - ((Len(out) + 3) % 8)) % 8) |-> 0]
  \o Lsb(Len(stored), 16) \o Lsb(65535 - Len(stored), 16) \o BitsOf(stored)
\* _tr_flush_block: the block, the three trees built: opt_lenb and
\* static_lenb are the bytes of the block with its own and with the fixed
\* codes
TrFlushSized(out, toks, stored, last, ltree, dtree, items, bltree) ==
  LET staticLenb == (ltree.staticLen + dtree.staticLen + 3 + 7) \div 8
      optLenb == Min((ltree.optLen + dtree.optLen + bltree.optLen
                      + 3 * (MaxBlIndex(bltree) + 1) + 5 + 5 + 4 + 3 + 7) \div 8, staticLenb)
  IN  IF Len(stored) + 4 <= optLenb THEN TrStoredBlock(out, stored, last)
      ELSE IF staticLenb = optLenb
        THEN out \o <<last, 1, 0>> \o CompressBlock(toks, StaticLCodes, StaticDCodes)
      ELSE out \o <<last, 0, 1>> \o SendAllTrees(ltree, dtree, bltree, items)
           \o CompressBlock(toks, GenCodes(ltree.len), GenCodes(dtree.len))

\* _tr_flush_block: build_bl_tree on the lengths of the two trees
TrFlushScanned(out, toks, stored, last, ltree, dtree, items) ==
  TrFlushSized(out, toks, stored, last, ltree, dtree, items, BuildBlTree(items))
TrFlushTrees(out, toks, stored, last, ltree, dtree) ==
  TrFlushScanned(out, toks, stored, last, ltree, dtree, ScanTree(ltree) \o ScanTree(dtree))

\* _tr_flush_block: out followed by the block of the symbols toks, which
\* stand for the bytes stored; the smallest of a stored block, a block with
\* the fixed codes and a block with its own codes, in bytes
TrFlushBlock(out, toks, stored, last) ==
  TrFlushTrees(out, toks, stored, last,
               BuildTree(LFreq(toks), StaticLLens, LengthExtra, EndBlock + 1, LCodes, MaxBits),
               BuildTree(DFreq(toks), StaticDLens, DistExtra, 0, DCodes, MaxBits))

\* the bytes the symbols stand for
TokBytes(toks) ==
  SumSeq(SubSeq([i \in 1..Len(toks) |-> IF toks[i].dist = 0 THEN 1 ELSE toks[i].lc + MinMatch],
                1, Len(toks)))

\* the blocks of the symbols toks, which stand for the bytes of data after
\* the first start: a block is flushed when it holds LitBufSize - 1 symbols
\* and once more, as the final block, at the end
RECURSIVE FlushBlocks(_, _, _, _, _)
AfterFlush(block, data, toks, available, start, last) ==
  IF last THEN block ELSE FlushBlocks(block, data, toks, available, start)
FlushBlocks(out, data, toks, available, start) ==
  LET last == Len(toks) < LitBufSize - 1 \/ (Len(toks) = LitBufSize - 1 /\ available)
      n == IF last THEN Len(toks) ELSE LitBufSize - 1
      bytes == IF last THEN Len(data) - start ELSE TokBytes(SubSeq(toks, 1, LitBufSize - 1))
  IN  AfterFlush(TrFlushBlock(out, SubSeq(toks, 1, n), SubSeq(data, start + 1, start + bytes),
                              IF last THEN 1 ELSE 0),
                 data, SubSeq(toks, n + 1, Len(toks)), available, start + bytes, last)
\* the deflate stream of data, its symbols tallied
DeflateBlocks(data, tallied) ==
  PackBits(FlushBlocks(<<>>, data, tallied.toks, tallied.available, 0))

\* the raw deflate stream of data
Deflate(data) == DeflateBlocks(data, DeflateSlow(data))

\* the gzip member header gzipSync writes: magic 1f 8b, method 8 (deflate),
\* no flags, mtime 0, xfl 0, OS 3
GzipHeader == <<31, 139, 8, 0, 0, 0, 0, 0, 0, 3>>

\* the check value of the gzip trailer
GzipCheck(data) == Crc32(data)

\* gzipSync(data): header, deflate stream, CRC-32, ISIZE
GzipSync(data) ==
  GzipHeader \o Deflate(data) \o GzipCheck(data) \o LittleEndian(Len(data), 4)

(***************************************************************************)
(* gunzipSync: inflate of stored blocks, blocks with the fixed codes and   *)
(* blocks with dynamic codes, and the gzip framing                         *)
(***************************************************************************)
\* a failed inflate (the call throws)
InflateError == [ok |-> FALSE, data |-> <<>>, pos |-> 0]

\* the symbols of a code by the length of their codes and then by value
SymbolsByLength(lens) ==
  LET symbols == SubSeq([i \in 1..Len(lens) |-> i - 1], 1, Len(lens))
  IN  Flatten(SubSeq([len \in 1..MaxBits |->
                        LET HasLength(s) == lens[s + 1] = len
                        IN  SelectSeq(symbols, HasLength)], 1, MaxBits))

\* the decoding table of a Huffman code given by the lengths of its
\* symbols: how many codes have each length, and the symbols in the order
\* of their codes
HuffmanTable(lens) ==
  [count |-> SubSeq([len \in 1..MaxBits |-> Cardinality({i \in 1..Len(lens) : lens[i] = len})],
                    1, MaxBits),
   symbol |-> SymbolsByLength(lens)]

\* inflate_table: the codes of length len the lengths up to len leave free
\* (left, doubled and lessened by count[len] for every length)
CodeSpaceAt(table, len) ==
  2^len - SumSeq(SubSeq([l \in 1..len |-> table.count[l] * 2^(len - l)], 1, len))

\* inflate_table: the code space the lengths leave free, -1 when they ask
\* for more than there is (an over-subscribed set)
CodeSpaceLeft(table) ==
  IF \E len \in 1..MaxBits : CodeSpaceAt(table, len) < 0 THEN -1
  ELSE CodeSpaceAt(table, MaxBits)

\* inflate_table refuses an over-subscribed set and an incomplete one; an
\* incomplete literal/length or distance code is let through when it has
\* no code longer than one bit
CompleteCode(table) == CodeSpaceLeft(table) = 0
UsableCode(table) ==
  LET Usable(left) == left = 0 \/ (left > 0 /\ \A len \in 2..MaxBits : table.count[len] = 0)
  IN  Usable(CodeSpaceLeft(table))

\* the first code of length len of a table, and the number of shorter codes
FirstCode(table, len) ==
  SumSeq(SubSeq([l \in 1..(len - 1) |-> table.count[l] * 2^(len - l)], 1, len - 1))
ShorterCodes(table, len) == SumSeq(SubSeq(table.count, 1, len - 1))

\* the symbol whose code starts at bit pos: [sym, len], len 0 when the bits
\* are no code or the input ends inside the code; the code is the shortest
\* run of bits that, read most significant bit first, is a code of its
\* length
HuffmanSymbol(bits, pos, table) ==
  LET Code(len) == MsbValue(SubSeq(bits, pos, pos + len - 1))
      IsCode(len) == Code(len) - table.count[len] < FirstCode(table, len)
      Symbol(len) ==
        [sym |-> table.symbol[ShorterCodes(table, len) + (Code(len) - FirstCode(table, len)) + 1],
         len |-> len]
      Shortest(lengths) ==
        IF lengths = {} THEN [sym |-> 0, len |-> 0]
        ELSE Symbol(CHOOSE l \in lengths : \A m \in lengths : l <= m)
  IN  Shortest({len \in 1..Min(MaxBits, Len(bits) - pos + 1) : IsCode(len)})

\* out followed by n bytes copied from dist bytes back; the copy may overlap
\* what it writes, which repeats the last dist bytes
CopyBack(out, dist, n) ==
  out \o SubSeq([i \in 1..n |-> out[Len(out) - dist + 1 + ((i - 1) % dist)]], 1, n)

\* the state of the inflate of a block after an error
InflateFailed == [ok |-> FALSE, done |-> TRUE, pos |-> 0, data |-> <<>>]

\* the copy of a match: length bytes from dist bytes back
InflateCopy(pos, out, length, dist) ==
  IF dist > Len(out) THEN InflateFailed
  ELSE [ok |-> TRUE, done |-> FALSE, pos |-> pos, data |-> CopyBack(out, dist, length)]
\* the distance of a match, its code dcode decoded at bit pos
InflateDistanceCode(bits, pos, out, length, dcode) ==
  LET extra == pos + dcode.len
  IN  IF dcode.len = 0 THEN InflateFailed
      ELSE IF dcode.sym > 29 THEN InflateFailed
      ELSE IF extra + DistExtra[dcode.sym + 1] - 1 > Len(bits) THEN InflateFailed
      ELSE InflateCopy(extra + DistExtra[dcode.sym + 1], out, length,
             DistBase[dcode.sym + 1]
             + LsbValue(SubSeq(bits, extra, extra + DistExtra[dcode.sym + 1] - 1)))

\* the distance of a match, whose code starts at bit pos
InflateDistance(bits, pos, out, length, dtable) ==
  InflateDistanceCode(bits, pos, out, length, HuffmanSymbol(bits, pos, dtable))

\* a match, pos being the bit after the length code lcode (symbol 256 +
\* lcode): the extra bits of the length, then the distance
InflateMatch(bits, pos, out, lcode, dtable) ==
  IF pos + LengthExtra[lcode] - 1 > Len(bits) THEN InflateFailed
  ELSE InflateDistance(bits, pos + LengthExtra[lcode], out,
         LengthBase[lcode] + LsbValue(SubSeq(bits, pos, pos + LengthExtra[lcode] - 1)),
         dtable)
\* one symbol of a block, its literal/length code decoded as here
InflateDecoded(bits, dtable, s, here) ==
  IF here.len = 0 THEN InflateFailed
  ELSE IF here.sym < EndBlock
    THEN [s EXCEPT !.pos = @ + here.len, !.data = Append(@, here.sym)]
  ELSE IF here.sym = EndBlock THEN [s EXCEPT !.pos = @ + here.len, !.done = TRUE]
  ELSE IF here.sym > 285 THEN InflateFailed
  ELSE InflateMatch(bits, s.pos + here.len, s.data, here.sym - EndBlock, dtable)

\* one symbol of a block, decoded with the literal/length code ltable and
\* the distance code dtable: a literal, the end of the block, or a match
InflateSymbol(bits, ltable, dtable, s) ==
  InflateDecoded(bits, dtable, s, HuffmanSymbol(bits, s.pos, ltable))

\* the symbols of a block from bit pos on: [ok, data, pos], pos the bit
\* after the end-of-block code; a block has fewer symbols than bits
InflateCodes(bits, pos, out, ltable, dtable) ==
  LET Ended(s) ==
        IF s.ok /\ s.done THEN [ok |-> TRUE, data |-> s.data, pos |-> s.pos] ELSE InflateError
  IN  Ended(Loop("inflate", [bits |-> bits, ltable |-> ltable, dtable |-> dtable],
                 [ok |-> TRUE, done |-> FALSE, pos |-> pos, data |-> out], Len(bits) + 1))

\* a block with the fixed Huffman codes (BTYPE 01): the codes of
\* StaticLLens, and 32 distance codes of five bits
FixedLTable == HuffmanTable(StaticLLens)
FixedDTable == HuffmanTable([i \in 1..32 |-> 5])
InflateFixed(bits, pos, out) == InflateCodes(bits, pos, out, FixedLTable, FixedDTable)

\* the code lengths of the bit length code: ncode of them, three bits each,
\* in the order BlOrder; the others are zero
CodeLengthLens(bits, pos, ncode) ==
  SubSeq([s \in 1..BlCodes |->
            LET rank == CHOOSE r \in 1..BlCodes : BlOrder[r] = s - 1
            IN  IF rank <= ncode
                THEN LsbValue(SubSeq(bits, pos + 3 * (rank - 1), pos + 3 * rank - 1))
                ELSE 0], 1, BlCodes)
\* the state of the reading of code lengths after an error
ReadFailed == [ok |-> FALSE, done |-> TRUE, pos |-> 0, lens |-> <<>>]

\* a repeat code read: copy times the length before (16) or zero (17, 18),
\* pos being the bit after its extra bits
ReadRepeat(total, s, sym, pos, copy) ==
  IF sym = 16 /\ Len(s.lens) = 0 THEN ReadFailed
  ELSE IF Len(s.lens) + copy > total THEN ReadFailed
  ELSE [ok |-> TRUE, done |-> Len(s.lens) + copy = total, pos |-> pos,
        lens |-> s.lens \o [i \in 1..copy |-> IF sym = 16 THEN s.lens[Len(s.lens)] ELSE 0]]

\* a symbol of the bit length code, decoded as here: a length, or a repeat
\* code with two, three or seven extra bits
ReadDecoded(bits, total, s, here) ==
  LET after == s.pos + here.len
      nbits == IF here.sym = 16 THEN 2 ELSE IF here.sym = 17 THEN 3 ELSE 7
  IN  IF here.len = 0 THEN ReadFailed
      ELSE IF here.sym < 16
        THEN [ok |-> TRUE, done |-> Len(s.lens) + 1 = total, pos |-> after,
              lens |-> Append(s.lens, here.sym)]
      ELSE IF after + nbits - 1 > Len(bits) THEN ReadFailed
      ELSE ReadRepeat(total, s, here.sym, after + nbits,
             (IF here.sym = 18 THEN 11 ELSE 3)
             + LsbValue(SubSeq(bits, after, after + nbits - 1)))

\* the next code lengths of the two codes of a block, read with the bit
\* length code: a length, or a repeat of the length before (16) or of zero
\* (17, 18); the lengths are read when there are total of them
ReadLength(bits, table, total, s) ==
  ReadDecoded(bits, total, s, HuffmanSymbol(bits, s.pos, table))
\* the symbols of a block with its own codes, the tables of the two codes
\* made: the codes must be usable, but a distance code may have no code at
\* all
InflateWithTables(bits, pos, out, dlens, ltable, dtable) ==
  IF ~UsableCode(ltable) THEN InflateError
  ELSE IF ~UsableCode(dtable) /\ \E i \in 1..Len(dlens) : dlens[i] # 0 THEN InflateError
  ELSE InflateCodes(bits, pos, out, ltable, dtable)

\* the symbols of a block with its own codes, the code lengths read: the
\* end-of-block symbol must have a code, and the two codes be usable (a
\* distance code may have no code at all)
InflateWithCodes(bits, out, nlen, read) ==
  IF ~read.ok THEN InflateError
  ELSE IF read.lens[EndBlock + 1] = 0 THEN InflateError
  ELSE InflateWithTables(bits, read.pos, out, SubSeq(read.lens, nlen + 1, Len(read.lens)),
                         HuffmanTable(SubSeq(read.lens, 1, nlen)),
                         HuffmanTable(SubSeq(read.lens, nlen + 1, Len(read.lens))))
\* a block with dynamic codes, the bit length code lencode read: the code
\* must be complete; pos is the first bit of the code lengths
InflateLengths(bits, pos, out, nlen, ndist, lencode) ==
  IF ~CompleteCode(lencode) THEN InflateError
  ELSE InflateWithCodes(bits, out, nlen,
         Loop("lengths", [bits |-> bits, table |-> lencode, total |-> nlen + ndist],
           [ok |-> TRUE, done |-> FALSE, pos |-> pos, lens |-> <<>>], nlen + ndist))

\* a block with dynamic codes, the counts HLIT, HDIST, HCLEN read
InflateCounts(bits, pos, out, nlen, ndist, ncode) ==
  IF nlen > LCodes \/ ndist > DCodes THEN InflateError
  ELSE IF pos + 13 + 3 * ncode > Len(bits) THEN InflateError
  ELSE InflateLengths(bits, pos + 14 + 3 * ncode, out, nlen, ndist,
                      HuffmanTable(CodeLengthLens(bits, pos + 14, ncode)))

\* a block with dynamic Huffman codes (BTYPE 10), pos being the bit after
\* the block type: the counts HLIT, HDIST, HCLEN, the bit length code, the
\* lengths of the two codes, the symbols
InflateDynamic(bits, pos, out) ==
  IF pos + 13 > Len(bits) THEN InflateError
  ELSE InflateCounts(bits, pos, out,
                     LsbValue(SubSeq(bits, pos, pos + 4)) + 257,
                     LsbValue(SubSeq(bits, pos + 5, pos + 9)) + 1,
                     LsbValue(SubSeq(bits, pos + 10, pos + 13)) + 4)

\* the first byte boundary at or after bit pos
ByteAlign(pos) == 8 * ((pos + 6) \div 8) + 1

\* a stored block whose LEN field starts at bit pos (byte aligned)
InflateStored(bits, pos, out) ==
  LET Stored(len, nlen) ==
        IF len + nlen # 65535 THEN InflateError
        ELSE IF pos + 31 + 8 * len > Len(bits) THEN InflateError
        ELSE [ok |-> TRUE,
              data |-> out \o PackBits(SubSeq(bits, pos + 32, pos + 31 + 8 * len)),
              pos |-> pos + 32 + 8 * len]
  IN  IF pos + 31 > Len(bits) THEN InflateError
      ELSE Stored(LsbValue(SubSeq(bits, pos, pos + 15)),
                  LsbValue(SubSeq(bits, pos + 16, pos + 31)))

RECURSIVE InflateBlocks(_, _, _)

\* what follows a block: the end of the stream after the final block,
\* otherwise the next block
AfterBlock(bits, final, block) ==
  IF ~block.ok \/ final = 1 THEN block
  ELSE InflateBlocks(bits, block.pos, block.data)

\* the deflate blocks from bit pos on: [ok, data, pos]; BTYPE 00 is a
\* stored block, 01 one with the fixed codes, 10 one with dynamic codes,
\* 11 an error
InflateBlocks(bits, pos, out) ==
  IF pos + 2 > Len(bits) THEN InflateError
  ELSE IF bits[pos + 1] = 0 /\ bits[pos + 2] = 0
    THEN AfterBlock(bits, bits[pos], InflateStored(bits, ByteAlign(pos + 3), out))
  ELSE IF bits[pos + 1] = 1 /\ bits[pos + 2] = 0
    THEN AfterBlock(bits, bits[pos], InflateFixed(bits, pos + 3, out))
  ELSE IF bits[pos + 1] = 0 /\ bits[pos + 2] = 1
    THEN AfterBlock(bits, bits[pos], InflateDynamic(bits, pos + 3, out))
  ELSE InflateError

\* the byte after the optional extra field of a gzip header, 0 on a
\* truncated header
SkipExtra(bytes, p, flg) ==
  IF (flg \div 4) % 2 = 0 THEN p
  ELSE IF p + 1 > Len(bytes) THEN 0
  ELSE IF p + 2 + bytes[p] + 256 * bytes[p + 1] > Len(bytes) + 1 THEN 0
  ELSE p + 2 + bytes[p] + 256 * bytes[p + 1]

\* the byte after the zero that ends a name or a comment, 0 when there is
\* none
SkipZeroTerminated(bytes, p) ==
  IF p = 0 THEN 0
  ELSE LET zeros == {i \in p..Len(bytes) : bytes[i] = 0}
       IN  IF zeros = {} THEN 0 ELSE (CHOOSE i \in zeros : \A k \in zeros : i <= k) + 1

SkipText(bytes, p, present) == IF present THEN SkipZeroTerminated(bytes, p) ELSE p

\* the byte after the optional header check: the low two bytes of the
\* CRC-32 of the header before it
SkipHeaderCrc(bytes, p, present) ==
  IF p = 0 \/ ~present THEN p
  ELSE IF p + 1 > Len(bytes) THEN 0
  ELSE IF SubSeq(bytes, p, p + 1) # SubSeq(Crc32(SubSeq(bytes, 1, p - 1)), 1, 2) THEN 0
  ELSE p + 2

\* the first byte of the deflate stream of a gzip member, 0 when the header
\* is malformed: magic 1f 8b, method 8, no reserved flag
GzipHeaderEnd(bytes) ==
  IF Len(bytes) < 10 THEN 0
  ELSE IF bytes[1] # 31 \/ bytes[2] # 139 \/ bytes[3] # 8 \/ bytes[4] >= 32 THEN 0
  ELSE SkipHeaderCrc(bytes,
         SkipText(bytes,
           SkipText(bytes, SkipExtra(bytes, 11, bytes[4]), (bytes[4] \div 8) % 2 = 1),
           (bytes[4] \div 16) % 2 = 1),
         (bytes[4] \div 2) % 2 = 1)

RECURSIVE GunzipMembers(_, _)

\* the trailer of a member, at byte t: CRC-32 and ISIZE of its data; then
\* the end of the input, zero padding, or another member
GunzipTrailer(bytes, t, out, data) ==
  IF t + 7 > Len(bytes) THEN [ok |-> FALSE, data |-> <<>>]
  ELSE IF SubSeq(bytes, t, t + 3) # GzipCheck(data) THEN [ok |-> FALSE, data |-> <<>>]
  ELSE IF SubSeq(bytes, t + 4, t + 7) # LittleEndian(Len(data), 4) THEN [ok |-> FALSE, data |-> <<>>]
  ELSE IF t + 7 = Len(bytes) THEN [ok |-> TRUE, data |-> out \o data]
  ELSE IF bytes[t + 8] = 0 THEN [ok |-> TRUE, data |-> out \o data]
  ELSE GunzipMembers(SubSeq(bytes, t + 8, Len(bytes)), out \o data)

GunzipInflated(bytes, out, inflated) ==
  IF ~inflated.ok THEN [ok |-> FALSE, data |-> <<>>]
  ELSE GunzipTrailer(bytes, (ByteAlign(inflated.pos) - 1) \div 8 + 1, out, inflated.data)
\* a member whose deflate stream starts at byte first, 0 when the header is
\* malformed
GunzipMember(bytes, out, first) ==
  IF first = 0 THEN [ok |-> FALSE, data |-> <<>>]
  ELSE GunzipInflated(bytes, out, InflateBlocks(BitsOf(bytes), 8 * (first - 1) + 1, <<>>))

\* the members of a gzip stream, out being the data of the members before
GunzipMembers(bytes, out) == GunzipMember(bytes, out, GzipHeaderEnd(bytes))

\* gunzipSync(bytes): [ok |-> TRUE, data] or, on a malformed stream,
\* [ok |-> FALSE] (the call throws)
GunzipSync(bytes) == GunzipMembers(bytes, <<>>)

\* a plausible slip: the body is base64-encoded only once
EncodeOnce(text) == ToBase64(GzipSync(text))

\* pushUI: gzipSync(output), then base64 twice
Encode(text) == ToBase64(ToBase64(GzipSync(text)))

\* the replacement character U+FFFD in UTF-8
Utf8Replacement == <<239, 191, 189>>

\* the continuation bytes a UTF-8 lead byte asks for, 0 for a byte that
\* stands alone and -1 for a byte that starts no sequence
Utf8Needed(b) ==
  IF b <= 127 THEN 0
  ELSE IF b >= 194 /\ b <= 223 THEN 1
  ELSE IF b >= 224 /\ b <= 239 THEN 2
  ELSE IF b >= 240 /\ b <= 244 THEN 3
  ELSE -1

\* the range of the first continuation byte after lead byte b
Utf8Lower(b) == IF b = 224 THEN 160 ELSE IF b = 240 THEN 144 ELSE 128
Utf8Upper(b) == IF b = 237 THEN 159 ELSE IF b = 244 THEN 143 ELSE 191

\* the well-formed continuation bytes that follow the lead byte at i, at most
\* `needed` of them
RECURSIVE Utf8Tail(_, _, _, _, _)
Utf8Tail(bytes, i, needed, lower, upper) ==
  IF needed = 0 \/ i > Len(bytes) \/ bytes[i] < lower \/ bytes[i] > upper THEN 0
  ELSE 1 + Utf8Tail(bytes, i + 1, needed - 1, 128, 191)

\* buf.toString(): one step of the UTF-8 decoder, at byte s.i; the text
\* is given as its own UTF-8 bytes, and an ill-formed subsequence reads as
\* U+FFFD
Utf8Step(bytes, s) ==
  LET Taken(needed, got) ==
        [i |-> s.i + 1 + got,
         acc |-> s.acc \o (IF needed >= 0 /\ got = needed THEN SubSeq(bytes, s.i, s.i + got)
                           ELSE Utf8Replacement)]
      Lead(b, needed) ==
        Taken(needed, IF needed <= 0 THEN 0
                      ELSE Utf8Tail(bytes, s.i + 1, needed, Utf8Lower(b), Utf8Upper(b)))
  IN  Lead(bytes[s.i], Utf8Needed(bytes[s.i]))

\* the round of each loop
LoopRound(loop, ctx, s) ==
  CASE loop = "crc" -> [crc |-> CrcShift(s.crc, ctx), left |-> s.left - 1]
    [] loop = "crc32" -> Crc32Round(ctx, s)
    [] loop = "longest_match" ->
         LongestMatchStep(ctx.data, ctx.chain, ctx.strstart, ctx.maxChain, s)
    [] loop = "deflate_slow" -> DeflateSlowStep(ctx.data, ctx.hashes, s)
    [] loop = "pqdownheap" -> PqSift(ctx.t, ctx.v, s)
    [] loop = "heapify" -> Heapify(ctx, s)
    [] loop = "join" -> JoinNodes(s)
    [] loop = "gen_bitlen" -> BitLengths(ctx.t, ctx.maxLength, s)
    [] loop = "overflow" -> FixOverflow(ctx, s)
    [] loop = "scan_tree" -> ScanTreeStep(ctx.lens, ctx.maxCode, s)
    [] loop = "inflate" -> InflateSymbol(ctx.bits, ctx.ltable, ctx.dtable, s)
    [] loop = "lengths" -> ReadLength(ctx.bits, ctx.table, ctx.total, s)
    [] loop = "utf8" -> Utf8Step(ctx, s)

\* the condition on which each loop ends
LoopEnded(loop, ctx, s) ==
  CASE loop = "crc" -> s.left = 0
    [] loop = "crc32" -> s.i > Len(ctx)
    [] loop = "longest_match" -> s.done
    [] loop = "deflate_slow" -> s.strstart = Len(ctx.data)
    [] loop = "pqdownheap" -> s.done
    [] loop = "heapify" -> s.k = 0
    [] loop = "join" -> Len(s.heap) < 2
    [] loop = "gen_bitlen" -> s.h > Len(ctx.t.sorted)
    [] loop = "overflow" -> s.overflow <= 0
    [] loop = "scan_tree" -> s.n > ctx.maxCode
    [] loop = "inflate" -> s.done
    [] loop = "lengths" -> s.done
    [] loop = "utf8" -> s.i > Len(ctx)

\* the rounds of a loop, one after the other, up to its end: the rounds
\* are taken in sixteen parts, each part from the state the part before
\* has left
Loop(loop, ctx, s, k) ==
  IF k = 0 \/ LoopEnded(loop, ctx, s) THEN s
  ELSE IF k = 1 THEN LoopRound(loop, ctx, s)
  ELSE LET s1 == Loop(loop, ctx, s, (k + 15) \div 16)
           s2 == Loop(loop, ctx, s1, (k + 15) \div 16)
           s3 == Loop(loop, ctx, s2, (k + 15) \div 16)
           s4 == Loop(loop, ctx, s3, (k + 15) \div 16)
           s5 == Loop(loop, ctx, s4, (k + 15) \div 16)
           s6 == Loop(loop, ctx, s5, (k + 15) \div 16)
           s7 == Loop(loop, ctx, s6, (k + 15) \div 16)
           s8 == Loop(loop, ctx, s7, (k + 15) \div 16)
           s9 == Loop(loop, ctx, s8, (k + 15) \div 16)
           s10 == Loop(loop, ctx, s9, (k + 15) \div 16)
           s11 == Loop(loop, ctx, s10, (k + 15) \div 16)
           s12 == Loop(loop, ctx, s11, (k + 15) \div 16)
           s13 == Loop(loop, ctx, s12, (k + 15) \div 16)
           s14 == Loop(loop, ctx, s13, (k + 15) \div 16)
           s15 == Loop(loop, ctx, s14, (k + 15) \div 16)
       IN  CASE LoopEnded(loop, ctx, s1) -> s1
             [] LoopEnded(loop, ctx, s2) -> s2
             [] LoopEnded(loop, ctx, s3) -> s3
             [] LoopEnded(loop, ctx, s4) -> s4
             [] LoopEnded(loop, ctx, s5) -> s5
             [] LoopEnded(loop, ctx, s6) -> s6
             [] LoopEnded(loop, ctx, s7) -> s7
             [] LoopEnded(loop, ctx, s8) -> s8
             [] LoopEnded(loop, ctx, s9) -> s9
             [] LoopEnded(loop, ctx, s10) -> s10
             [] LoopEnded(loop, ctx, s11) -> s11
             [] LoopEnded(loop, ctx, s12) -> s12
             [] LoopEnded(loop, ctx, s13) -> s13
             [] LoopEnded(loop, ctx, s14) -> s14
             [] LoopEnded(loop, ctx, s15) -> s15
             [] OTHER -> Loop(loop, ctx, s15, (k + 15) \div 16)

\* buf.toString(): the text the bytes decode to, as its UTF-8 bytes
BufferToString(bytes) == Loop("utf8", bytes, [i |-> 1, acc |-> <<>>], Len(bytes)).acc
\* gunzipSync(gzipped).toString(); the call throws on a malformed stream
GunzippedText(gunzipped) ==
  IF gunzipped.ok THEN [data |-> BufferToString(gunzipped.data), ok |-> TRUE]
  ELSE gunzipped

\* Pull.getDocumentAttachmentContent: Buffer.from(res, 'base64'),
\* gunzipSync(...).toString()
Decode(res) == GunzippedText(GunzipSync(BufferFromBase64(res)))

(***************************************************************************)
(* OBJECTS AND THE FILESYSTEM                                              *)
(* A JavaScript object is a function from its own property names to their  *)
(* values, so that an absent property, delete and spread are structural.   *)
(* A path is the sequence of its components.                               *)
(***************************************************************************)
Has(obj, k) == k \in DOMAIN obj

\* obj.k, undefined when the property is absent
Get(obj, k) == IF Has(obj, k) THEN obj[k] ELSE UNDEF

\* {...obj, k: v}
With(obj, k, v) == [f \in DOMAIN obj \cup {k} |-> IF f = k THEN v ELSE obj[f]]

\* delete obj.k
Without(obj, k) == [f \in DOMAIN obj \ {k} |-> obj[f]]

\* JavaScript truthiness: undefined, null and the empty string are falsy
Truthy(v) == IF Nullish(v) THEN FALSE ELSE v # ""

EmptyFs == [dirs |-> {}, files |-> <<>>]

Prefixes(path) == {SubSeq(path, 1, n) : n \in 1..Len(path)}

\* mkdirSync(dir, {recursive: true})
MkDir(fs, dir) == [fs EXCEPT !.dirs = @ \cup Prefixes(dir)]

\* writeFileSafe(dir, name, content): create dir if absent, then write dir/name
WriteFileSafe(fs, dir, name, content) ==
  LET file == Append(dir, name)
  IN  [dirs  |-> fs.dirs \cup Prefixes(dir),
       files |-> [p \in DOMAIN fs.files \cup {file} |->
                    IF p = file THEN content ELSE fs.files[p]]]

\* a base64-encoded text blob, and fromBase64(blob)
B64(text) == <<"b64", text>>
FromBase64(blob) == blob[2]

\* JSON.stringify(value, null, 2)
JsonStringify(value) == <<"json", value>>

(***************************************************************************)
(* ELEMENT METADATA EXTRACTOR AND LEGACY DETECTOR                          *)
(***************************************************************************)
\* decoded element scripts: two carry a declaration with a name, one none
ScriptTexts == {"@ElementDefinition({name:'A'}) class", "@ElementDefinition({name:'B'}) class", "class"}

\* extractElementMetadata(script): the declared name, undefined when the
\* script carries no declaration
ExtractElementMetadata(script) ==
  [name |-> IF script = "@ElementDefinition({name:'A'}) class" THEN "A"
            ELSE IF script = "@ElementDefinition({name:'B'}) class" THEN "B"
            ELSE UNDEF]

\* isLegacyDefinition(ui): the definition exposes tabs and sections
IsLegacyDefinition(ui) == Has(ui, "tabs") /\ Has(ui, "sections")

(***************************************************************************)
(* TREE SERIALIZER, MODERN BRANCH                                          *)
(***************************************************************************)
RECURSIVE SaveElement(_, _, _)
RECURSIVE SaveElementChildren(_, _, _, _)

\* saveElement(el, path): [fs, name]; name is undefined when nothing is
\* returned
SaveElement(el, path, fs) ==
  LET script == IF Truthy(Get(el, "script")) THEN FromBase64(el.script) ELSE Get(el, "script")
  IN  IF ~Truthy(script) THEN [fs |-> fs, name |-> UNDEF]
      ELSE
        LET elName == ExtractElementMetadata(script).name
            elDir == Append(path, Render(elName))
            fs1 == MkDir(fs, elDir)
            fs2 == WriteFileSafe(fs1, elDir, "script.ts", script)
            fs3 == IF Truthy(Get(el, "styles"))
                   THEN WriteFileSafe(fs2, elDir, "styles.css", FromBase64(el.styles))
                   ELSE fs2
            fs4 == IF Truthy(Get(el, "template"))
                   THEN WriteFileSafe(fs3, elDir, "template.html", FromBase64(el.template))
                   ELSE fs3
        IN  [fs |-> SaveElementChildren(el.children, 1, elDir, fs4), name |-> elName]

\* el.children.forEach(c => saveElement(c, elDir))
SaveElementChildren(children, i, dir, fs) ==
  IF i > Len(children) THEN fs
  ELSE SaveElementChildren(children, i + 1, dir, SaveElement(children[i], dir, fs).fs)

\* return elName ? [...acc, elName] : acc, with the filesystem saveElement left
Collect(names, saved) ==
  [fs |-> saved.fs,
   names |-> IF Truthy(saved.name) THEN Append(names, saved.name) ELSE names]

\* children.reduce(...) of saveUiDefinition: [fs, names]
RECURSIVE ReduceChildren(_, _, _, _)
ReduceChildren(children, i, path, acc) ==
  IF i > Len(children) THEN acc
  ELSE ReduceChildren(children, i + 1, path,
         Collect(acc.names, SaveElement(children[i], path, acc.fs)))

\* the metadata of saveUiDefinition: {...rest, children: childrenNames},
\* written to path/metadata.json
WriteUiMetadata(ui, path, reduced) ==
  [fs |-> WriteFileSafe(reduced.fs, path, "metadata.json",
                        JsonStringify(With(ui, "children", reduced.names))),
   threw |-> FALSE]

\* saveUiDefinition(ui, path): [fs, threw]; children.reduce throws a
\* TypeError when the definition has no children
SaveUiDefinition(ui, path, fs) ==
  IF Nullish(Get(ui, "children")) THEN [fs |-> fs, threw |-> TRUE]
  ELSE WriteUiMetadata(ui, path,
         ReduceChildren(ui.children, 1, path, [fs |-> fs, names |-> <<>>]))

(***************************************************************************)
(* TREE SERIALIZER, LEGACY BRANCH                                          *)
(***************************************************************************)
\* the file extension of each inline blob of a legacy section
BlobExt(blob) ==
  IF blob = "script" THEN "js"
  ELSE IF blob = "styles" THEN "css"
  ELSE IF blob = "template" THEN "html"
  ELSE "json"

\* `${section.label}.${ext}` for the labels of the model
FileNames ==
  [A |-> [js |-> "A.js", css |-> "A.css", html |-> "A.html", json |-> "A.json"],
   B |-> [js |-> "B.js", css |-> "B.css", html |-> "B.html", json |-> "B.json"],
   C |-> [js |-> "C.js", css |-> "C.css", html |-> "C.html", json |-> "C.json"],
   D |-> [js |-> "D.js", css |-> "D.css", html |-> "D.html", json |-> "D.json"]]

FileName(section, blob) == FileNames[section.label][BlobExt(blob)]

\* one `if (section.blob) {...}` block of saveLegacySectionFiles: acc is
\* [fs, meta]; the file is written, the inline field deleted and the URL
\* stored under urlField
SaveBlob(section, dir, acc, blob, urlField, content) ==
  IF ~Truthy(Get(section, blob)) THEN acc
  ELSE [fs   |-> WriteFileSafe(acc.fs, dir, FileName(section, blob), content),
        meta |-> With(Without(acc.meta, blob), urlField, Append(dir, FileName(section, blob)))]

\* the URL field each blob is recorded under; styles reuses scriptUrl
UrlField(blob) ==
  IF blob = "script" THEN "scriptUrl"
  ELSE IF blob = "styles" THEN "scriptUrl"
  ELSE IF blob = "template" THEN "templateUrl"
  ELSE "propertiesUrl"

\* saveLegacySectionFiles(section, dir, metadata): acc is [fs, sections]
SaveLegacySectionFiles(section, dir, acc) ==
  LET a0 == [fs |-> acc.fs, meta |-> section]
      a1 == SaveBlob(section, dir, a0, "script", UrlField("script"),
                     IF Truthy(Get(section, "script")) THEN FromBase64(section.script) ELSE UNDEF)
      a2 == SaveBlob(section, dir, a1, "styles", UrlField("styles"),
                     IF Truthy(Get(section, "styles")) THEN FromBase64(section.styles) ELSE UNDEF)
      a3 == SaveBlob(section, dir, a2, "template", UrlField("template"),
                     IF Truthy(Get(section, "template")) THEN FromBase64(section.template) ELSE UNDEF)
      a4 == SaveBlob(section, dir, a3, "properties", UrlField("properties"),
                     IF Truthy(Get(section, "properties")) THEN JsonStringify(section.properties) ELSE UNDEF)
  IN  [fs |-> a4.fs, sections |-> Append(acc.sections, a4.meta)]

\* s.parentId === parentId
IsChildOf(s, parentId) == StrictEq(Get(s, "parentId"), parentId)

RECURSIVE SaveLegacySections(_, _, _, _)
RECURSIVE SaveFirstChildren(_, _, _, _, _)

\* saveLegacySections(sections, path, metadata, parentId): acc is
\* [fs, sections]
SaveLegacySections(sections, path, acc, parentId) ==
  LET Child(s) == IsChildOf(s, parentId)
  IN  SaveFirstChildren(sections, SelectSeq(sections, Child), 1, path, acc)  \* sections.filter

\* firstChildren.forEach(c => {...})
SaveFirstChildren(sections, firstChildren, i, path, acc) ==
  IF i > Len(firstChildren) THEN acc
  ELSE LET c == firstChildren[i]
           childPath == Append(path, c.label)
           saved == SaveLegacySectionFiles(c, childPath, acc)
       IN  SaveFirstChildren(sections, firstChildren, i + 1, path,
             SaveLegacySections(sections, childPath, saved, c.id))

\* ui.tabs.forEach(tab => {...})
RECURSIVE SaveTabs(_, _, _, _)
SaveTabs(ui, i, path, acc) ==
  IF i > Len(ui.tabs) THEN acc
  ELSE LET tab == ui.tabs[i]
           OnTab(section) == section.page = tab.id
           tabSections == SelectSeq(ui.sections, OnTab)
       IN  SaveTabs(ui, i + 1, path,
             SaveLegacySections(tabSections, Append(path, tab.name), acc, UNDEF))

\* metadataArray.push(legacyMetadata), legacyMetadata being {...ui, sections}
PushLegacyMetadata(ui, saved, metadataArray) ==
  [fs |-> saved.fs,
   metadataArray |-> Append(metadataArray, With(ui, "sections", saved.sections)),
   threw |-> FALSE]

\* saveLegacyUiDefinition(ui, path, metadataArray): [fs, metadataArray, threw]
SaveLegacyUiDefinition(ui, path, fs, metadataArray) ==
  PushLegacyMetadata(ui, SaveTabs(ui, 1, path, [fs |-> fs, sections |-> <<>>]), metadataArray)

\* saveUiDefinition leaves the metadataArray as it is
KeepMetadata(saved, metadataArray) ==
  [fs |-> saved.fs, metadataArray |-> metadataArray, threw |-> saved.threw]

\* the dispatch of pullUI on one included definition:
\* [fs, metadataArray, threw]
SaveDispatch(ui, uiDir, fs, metadataArray) ==
  IF IsLegacyDefinition(ui)
  THEN SaveLegacyUiDefinition(ui, uiDir, fs, metadataArray)
  ELSE KeepMetadata(SaveUiDefinition(ui, uiDir, fs), metadataArray)

(***************************************************************************)
(* Inputs of the serializer                                                *)
(***************************************************************************)
Element(script, styles, template, children) ==
  LET fields == {"children"}
                \cup (IF script = "" THEN {} ELSE {"script"})
                \cup (IF styles = "" THEN {} ELSE {"styles"})
                \cup (IF template = "" THEN {} ELSE {"template"})
  IN  [f \in fields |->
         IF f = "children" THEN children
         ELSE IF f = "script" THEN B64(script)
         ELSE IF f = "styles" THEN B64(styles)
         ELSE B64(template)]

LeafElements ==
  {Element(sc, st, te, <<>>) :
     sc \in ScriptTexts \cup {""}, st \in {"", "css"}, te \in {"", "html"}}

NestedElements ==
  {Element(sc, "", "", <<leaf>>) :
     sc \in {"@ElementDefinition({name:'A'}) class", "class"},
     leaf \in {Element(s, "", "html", <<>>) : s \in {"@ElementDefinition({name:'B'}) class", "class", ""}}}

Elements == LeafElements \cup NestedElements

ModernDefinitions ==
  {[name |-> "M", children |-> ch] : ch \in SeqsUpTo(Elements, MaxChildren)}

\* a definition matching neither discriminant
OtherDefinitions == {[name |-> "O"]}

Tabs == <<[id |-> "t1", name |-> "T1"], [id |-> "t2", name |-> "T2"]>>

SectionIds == <<"1", "2", "3", "4">>
SectionLabels == <<"A", "B", "C", "D">>
BlobNames == {"script", "styles", "template", "properties"}

\* how the parentId of a generated section is chosen: absent, null, or the
\* id of another section
ParentAbsent == ""
ParentNull == "null"

\* section i: parent is ParentAbsent, ParentNull or the id of a section;
\* the blobs in `blobs` hold content, those in `empties` are present and
\* falsy (an empty string, or null for properties)
Section(i, parent, page, blobs, empties) ==
  LET fields == {"id", "page", "label"} \cup blobs \cup empties
                \cup (IF parent = ParentAbsent THEN {} ELSE {"parentId"})
  IN  [f \in fields |->
         IF f = "id" THEN SectionIds[i]
         ELSE IF f = "page" THEN page
         ELSE IF f = "label" THEN SectionLabels[i]
         ELSE IF f = "parentId" THEN (IF parent = ParentNull THEN NULL ELSE parent)
         ELSE IF f \in empties THEN (IF f = "properties" THEN NULL ELSE "")
         ELSE IF f = "properties" THEN <<"obj", SectionLabels[i]>>
         ELSE B64(f)]

ParentChoices(i, n) == {ParentAbsent, ParentNull} \cup {SectionIds[j] : j \in (1..n) \ {i}}

\* the parents of n sections, none its own parent
ParentLists(n) ==
  {p \in [1..n -> {ParentAbsent, ParentNull} \cup {SectionIds[j] : j \in 1..n}] :
     \A i \in 1..n : p[i] \in ParentChoices(i, n)}

\* n sections with the given parents and pages, all carrying the same blobs
SectionList(n, parents, pages, blobs, empties) ==
  [i \in 1..n |-> Section(i, parents[i], pages[i], blobs, empties)]

LegacyDefinition(sections) == [name |-> "L", tabs |-> Tabs, sections |-> sections]

SaveRoot == <<"source", "PM">>

SaveIdle ==
  /\ saveUi = [name |-> ""] /\ saveFs = EmptyFs /\ saveMeta = <<>> /\ savePc = "off"

\* the definition handed to the dispatch: modern, of no known shape, or
\* legacy with up to MaxSections sections, whose other blobs are absent or
\* present and falsy
SaveStart ==
  /\ \/ saveUi \in ModernDefinitions \cup OtherDefinitions
     \/ \E n \in 0..MaxSections :
          \E parents \in ParentLists(n), pages \in [1..n -> {"t1", "t2"}],
             blobs \in SUBSET BlobNames :
            \E empties \in {{}, BlobNames \ blobs} :
              saveUi = LegacyDefinition(SectionList(n, parents, pages, blobs, empties))
  /\ saveFs = EmptyFs /\ saveMeta = <<>> /\ savePc = "ready"

\* what the dispatch leaves behind
SaveOutcome(r) ==
  /\ saveFs' = r.fs
  /\ saveMeta' = r.metadataArray
  /\ savePc' = IF r.threw THEN "threw" ELSE "saved"

\* the legacy branch of the dispatch
SaveLegacy ==
  /\ savePc = "ready"
  /\ IsLegacyDefinition(saveUi)
  /\ SaveOutcome(SaveDispatch(saveUi, Append(SaveRoot, saveUi.name), saveFs, saveMeta))
  /\ UNCHANGED saveUi

\* the modern branch of the dispatch
SaveModern ==
  /\ savePc = "ready"
  /\ ~IsLegacyDefinition(saveUi)
  /\ SaveOutcome(SaveDispatch(saveUi, Append(SaveRoot, saveUi.name), saveFs, saveMeta))
  /\ UNCHANGED saveUi

(***************************************************************************)
(* PULL ORCHESTRATOR (pullUI)                                              *)
(***************************************************************************)
SourcePath == <<"source">>

RecordNames == <<"PM1", "PM2", "PM3", "PM4", "PM5">>

DefM ==
  [name |-> "M",
   children |-> <<Element("@ElementDefinition({name:'A'}) class", "css", "", <<>>),
                  Element("@ElementDefinition({name:'B'}) class", "", "html", <<>>)>>]

DefL ==
  [name |-> "L", tabs |-> Tabs,
   sections |-> <<Section(1, ParentAbsent, "t1", {"script"}, {}), Section(2, "1", "t1", {"template"}, {})>>]

DefO == [name |-> "O"]

\* document contents: text that is no JSON, or the JSON of a UiDef array
Garbage == [json |-> FALSE, defs |-> <<>>]
JsonOf(defs) == [json |-> TRUE, defs |-> defs]

Contents == {Garbage, JsonOf(<<DefM>>), JsonOf(<<DefL, DefM>>), JsonOf(<<DefM, DefO, DefL>>)}

\* a record's UI-definitions document: served and decodable ("ok"), not
\* found ("missing"), or with a body that does not gunzip ("corrupt")
RemoteRecords(i) ==
  {[Name |-> RecordNames[i], doc |-> "ok", content |-> c] : c \in Contents}
  \cup {[Name |-> RecordNames[i], doc |-> d, content |-> Garbage] : d \in {"missing", "corrupt"}}

RemoteStores ==
  UNION {{rs \in [1..n -> UNION {RemoteRecords(i) : i \in 1..n}] :
            \A i \in 1..n : rs[i] \in RemoteRecords(i)} : n \in 1..MaxBatch}

\* the selections pullUI is called with
Selections ==
  {[dumpAll |-> TRUE, uis |-> <<>>],
   [dumpAll |-> FALSE, uis |-> <<<<"PM1">>, <<"PM2">>, <<"PM3">>, <<"PM4">>>>],
   [dumpAll |-> FALSE, uis |-> <<<<"PM1", "M">>, <<"PM2", "L">>, <<"PM3">>>>]}

\* Array.from(uisToDump).map(ui => ui.split(':')[0])
ModelNames(uis) == {uis[k][1] : k \in 1..Len(uis)}

\* fetchProductModels(conn, dumpAll, modelNames)
FetchProductModels(models, all, names) ==
  LET Selected(r) == all \/ r.Name \in names
  IN  SelectSeq(models, Selected)

\* the names every plain object inherits from Object.prototype
ObjectPrototypeKeys ==
  {"constructor", "hasOwnProperty", "isPrototypeOf", "propertyIsEnumerable",
   "toLocaleString", "toString", "valueOf", "__defineGetter__",
   "__defineSetter__", "__lookupGetter__", "__lookupSetter__"}

\* the value a plain object answers for an inherited name: an object or a
\* function, truthy and equal to no string
Inherited(key) == <<"Object.prototype", key>>

\* uiDefNamesMap[modelName]. The map is a plain object: the definition name
\* of the last entry of the model, undefined when that entry has no name.
\* Assigning a string or undefined to __proto__ sets nothing, and reading it
\* answers Object.prototype; a model without entry answers what the object
\* inherits under that name, undefined for any other name.
UiDefName(uis, modelName) ==
  LET at == {k \in 1..Len(uis) : uis[k][1] = modelName}
  IN  IF modelName = "__proto__" THEN Inherited(modelName)
      ELSE IF at = {}
      THEN (IF modelName \in ObjectPrototypeKeys THEN Inherited(modelName) ELSE UNDEF)
      ELSE LET last == CHOOSE k \in at : \A j \in at : j <= k
           IN  IF Len(uis[last]) >= 2 THEN uis[last][2] ELSE UNDEF

\* includeUiName
IncludeUiName(all, uis, Name, ui) ==
  all \/ ~Truthy(UiDefName(uis, Name)) \/ StrictEq(UiDefName(uis, Name), ui.name)

\* Pull.getDocumentAttachment: the document query throws when the document
\* is not found, gunzipSync throws on a malformed body
FetchDocumentAttachment(rec) ==
  IF rec.doc = "ok" THEN [ok |-> TRUE, content |-> rec.content]
  ELSE [ok |-> FALSE, content |-> Garbage]

\* JSON.parse(content)
JsonParse(content) == [ok |-> content.json, value |-> content.defs]

\* uiDefs.forEach(ui => {...}): acc is [fs, metadataArray, threw]; an
\* exception ends the loop
RECURSIVE SaveUiDefs(_, _, _, _, _, _, _)
SaveUiDefs(uiDefs, i, all, uis, Name, path, acc) ==
  IF i > Len(uiDefs) \/ acc.threw THEN acc
  ELSE LET ui == uiDefs[i]
       IN  SaveUiDefs(uiDefs, i + 1, all, uis, Name, path,
             IF ~IncludeUiName(all, uis, Name, ui) THEN acc
             ELSE SaveDispatch(ui, Append(path, ui.name), acc.fs, acc.metadataArray))

\* a plausible slip: the parse error is not caught
OnParseFailureRethrow(Name, st) == [st EXCEPT !.threw = TRUE]

\* the catch block of the parse: log the record and return
OnParseFailure(Name, st) ==
  [st EXCEPT !.log = Append(@, <<"Failed to parse document content: ", Name>>)]

\* the end of an iteration: the aggregated metadata.json of the legacy
\* definitions and uiPmsToDump.add(Name); nothing of it after an exception
FinishRecord(Name, path, saved, st) ==
  IF saved.threw THEN [st EXCEPT !.fs = saved.fs, !.threw = TRUE]
  ELSE [st EXCEPT
          !.fs = IF Len(saved.metadataArray) > 0
                 THEN WriteFileSafe(saved.fs, path, "metadata.json",
                                    JsonStringify(saved.metadataArray))
                 ELSE saved.fs,
          !.dumped = @ \cup {Name}]

\* one iteration of contents.forEach: st is [fs, log, dumped, threw]
ProcessRecord(all, uis, Name, content, st) ==
  IF ~JsonParse(content).ok THEN OnParseFailure(Name, st)
  ELSE FinishRecord(Name, Append(SourcePath, Name),
         SaveUiDefs(JsonParse(content).value, 1, all, uis, Name, Append(SourcePath, Name),
                    [fs |-> st.fs, metadataArray |-> <<>>, threw |-> FALSE]),
         st)

PullIdle ==
  /\ dumpAll = FALSE /\ uisToDump = <<>> /\ remoteModels = <<>> /\ pullBatch = <<>>
  /\ fetchSt = <<>> /\ pullPc = "off" /\ pullErr = "" /\ pullIdx = 0
  /\ pullFs = EmptyFs /\ pullLog = <<>> /\ uiPmsToDump = {}

PullStart ==
  /\ \E sel \in Selections : dumpAll = sel.dumpAll /\ uisToDump = sel.uis
  /\ remoteModels \in RemoteStores
  /\ pullBatch = <<>> /\ fetchSt = <<>> /\ pullPc = "start" /\ pullErr = ""
  /\ pullIdx = 0 /\ pullFs = EmptyFs /\ pullLog = <<>> /\ uiPmsToDump = {}

\* await fetchProductModels(...); the document fetches are started
PullFetchProductModels ==
  /\ pullPc = "start"
  /\ pullBatch' = FetchProductModels(remoteModels, dumpAll,
                                     IF dumpAll THEN {} ELSE ModelNames(uisToDump))
  /\ fetchSt' = [i \in 1..Len(pullBatch') |-> "pending"]
  /\ pullPc' = "fetching"
  /\ UNCHANGED <<dumpAll, uisToDump, remoteModels, pullErr, pullIdx, pullFs, pullLog,
                 uiPmsToDump>>

\* one fetchDocumentAttachment settles
PullFetchSettles(i) ==
  /\ pullPc \in {"fetching", "rejected"}
  /\ fetchSt[i] = "pending"
  /\ fetchSt' = [fetchSt EXCEPT
                   ![i] = IF FetchDocumentAttachment(pullBatch[i]).ok THEN "ok" ELSE "failed"]
  /\ UNCHANGED <<dumpAll, uisToDump, remoteModels, pullBatch, pullPc, pullErr, pullIdx,
                 pullFs, pullLog, uiPmsToDump>>

\* Promise.all rejects as soon as one fetch has failed: the await throws
PullFetchRejects ==
  /\ pullPc = "fetching"
  /\ \E i \in DOMAIN fetchSt : fetchSt[i] = "failed"
  /\ pullPc' = "rejected"
  /\ pullErr' = "fetch"
  /\ UNCHANGED <<dumpAll, uisToDump, remoteModels, pullBatch, fetchSt, pullIdx, pullFs,
                 pullLog, uiPmsToDump>>

\* Promise.all resolves once every fetch has succeeded
PullContentsReady ==
  /\ pullPc = "fetching"
  /\ \A i \in DOMAIN fetchSt : fetchSt[i] = "ok"
  /\ pullPc' = "processing"
  /\ pullIdx' = 1
  /\ UNCHANGED <<dumpAll, uisToDump, remoteModels, pullBatch, fetchSt, pullErr, pullFs,
                 pullLog, uiPmsToDump>>

\* what an iteration leaves behind; an exception ends forEach and pullUI
PullOutcome(r) ==
  /\ pullFs' = r.fs
  /\ pullLog' = r.log
  /\ uiPmsToDump' = r.dumped
  /\ IF r.threw
     THEN pullPc' = "rejected" /\ pullErr' = "serialize" /\ pullIdx' = pullIdx
     ELSE pullPc' = pullPc /\ pullErr' = pullErr /\ pullIdx' = pullIdx + 1

\* one iteration of contents.forEach
PullProcessRecord ==
  /\ pullPc = "processing"
  /\ pullIdx <= Len(pullBatch)
  /\ PullOutcome(ProcessRecord(dumpAll, uisToDump, pullBatch[pullIdx].Name,
                               FetchDocumentAttachment(pullBatch[pullIdx]).content,
                               [fs |-> pullFs, log |-> pullLog, dumped |-> uiPmsToDump,
                                threw |-> FALSE]))
  /\ UNCHANGED <<dumpAll, uisToDump, remoteModels, pullBatch, fetchSt>>

\* return {uiRecords, uiPmsToDump}
PullReturn ==
  /\ pullPc = "processing"
  /\ pullIdx > Len(pullBatch)
  /\ pullPc' = "done"
  /\ UNCHANGED <<dumpAll, uisToDump, remoteModels, pullBatch, fetchSt, pullErr, pullIdx,
                 pullFs, pullLog, uiPmsToDump>>

(***************************************************************************)
(* INCLUSION FILTER OF THE TWO PULLS                                       *)
(* pullUI (library) and Pull.fetchUiDefinitions (CLI command) on the same  *)
(* selection and the same record.                                          *)
(***************************************************************************)
\* Member.ui and Member.pml
MemberUi == "config-ui"
MemberPml == "pml"

\* the members a selection is made of
MemberChoices ==
  {<<MemberUi, "PM1">>, <<MemberUi, "PM1", "M">>, <<MemberUi, "PM1", "L">>,
   <<MemberUi, "PM2">>, <<MemberUi, "PM2", "M">>, <<MemberPml, "PM1">>,
   <<MemberUi, "__proto__", "M">>}

\* the selections: no member at all (everything is pulled) or up to
\* MaxMembers members holding at least one UI member
MemberLists ==
  {ms \in SeqsUpTo(MemberChoices, MaxMembers) :
     Len(ms) = 0 \/ \E k \in 1..Len(ms) : ms[k][1] = MemberUi}

DefinitionNames == {"M", "L", "N"}

\* the records: a name and the names of the definitions of its document
FilterRecords ==
  {[Name |-> n, defs |-> ds] :
     n \in {"PM1", "PM2", "PM3", "__proto__"}, ds \in SeqsUpTo({[name |-> d] : d \in DefinitionNames}, MaxDefs)}

\* Pull.getMembersByTypes(memberTypes)
GetMembersByTypes(flag, memberTypes) ==
  LET OfType(member) == member[1] \in memberTypes
  IN  SelectSeq(flag, OfType)

\* Pull.getMembersModelNames(memberTypes)
GetMembersModelNames(flag, memberTypes) ==
  {GetMembersByTypes(flag, memberTypes)[k][2] :
     k \in 1..Len(GetMembersByTypes(flag, memberTypes))}

\* Pull.fetchProductModels: the query by the names of the pml and ui
\* members, every record when there is none
CliFetchProductModels(flag, models) ==
  LET Queried(r) ==
        \/ GetMembersModelNames(flag, {MemberPml, MemberUi}) = {}
        \/ r.Name \in GetMembersModelNames(flag, {MemberPml, MemberUi})
  IN  SelectSeq(models, Queried)

\* Pull.filterProductModelsByMember(memberType, productModels)
FilterProductModelsByMember(flag, memberType, productModels) ==
  LET OfMember(r) == r.Name \in GetMembersModelNames(flag, {memberType})
  IN  SelectSeq(productModels, OfMember)

\* productModelsUiDef of Pull.fetchUiDefinitions
ProductModelsUiDef(flag, productModels) ==
  IF Len(flag) > 0 THEN FilterProductModelsByMember(flag, MemberUi, productModels)
  ELSE productModels

\* includeUiName of Pull.fetchUiDefinitions
CliIncludeUiName(flag, uiDefMembers, Name, ui) ==
  \/ Len(flag) = 0
  \/ \E k \in 1..Len(uiDefMembers) :
       /\ uiDefMembers[k][2] = Name
       /\ \/ Len(uiDefMembers[k]) < 3
          \/ ~Truthy(uiDefMembers[k][3])
          \/ uiDefMembers[k][3] = ui.name

\* productModelsPml of Pull.fetchPml
ProductModelsPml(flag, productModels) ==
  IF Len(flag) > 0 THEN FilterProductModelsByMember(flag, MemberPml, productModels)
  ELSE productModels

\* the state of a record's PML document in the org: served and decodable,
\* not found, or with a body that does not gunzip
PmlDocuments == {"ok", "missing", "corrupt"}

\* the two files Pull.fetchPml writes for a record
PmlFiles(Name) ==
  {[dir |-> <<"source", Name>>, file |-> <<Name, ".pml.json">>],
   [dir |-> <<"source", Name>>, file |-> <<Name, ".pml">>]}

\* Pull.fetchPml(productModels): the PML documents of the records are
\* awaited together, then written; one failing fetch rejects the whole
CliFetchPml(flag, productModels, pml) ==
  LET fetched == ProductModelsPml(flag, productModels)
  IN  IF Len(fetched) > 0 /\ pml # "ok" THEN [rejected |-> TRUE, files |-> {}]
      ELSE [rejected |-> FALSE,
            files |-> UNION {PmlFiles(fetched[k].Name) : k \in 1..Len(fetched)}]

\* the definitions of the record Pull.fetchUiDefinitions serializes
CliIncluded(flag, rec) ==
  IF Len(ProductModelsUiDef(flag, CliFetchProductModels(flag, <<rec>>))) = 0 THEN {}
  ELSE {k \in 1..Len(rec.defs) :
          CliIncludeUiName(flag, GetMembersByTypes(flag, {MemberUi}), rec.Name, rec.defs[k])}

\* new Set(entries): insertion order, an entry already present stays where
\* it is
RECURSIVE SetFrom(_, _)
SetFrom(entries, acc) ==
  IF Len(entries) = 0 THEN acc
  ELSE SetFrom(Tail(entries),
         IF \E k \in 1..Len(acc) : acc[k] = Head(entries) THEN acc
         ELSE Append(acc, Head(entries)))

\* the parameters pullUI gets for a selection: dumpAll when nothing is
\* selected, uisToDump the set of the model[:definition] of the UI members
LibDumpAll(flag) == Len(flag) = 0
LibUisToDump(flag) ==
  LET ui == GetMembersByTypes(flag, {MemberUi})
  IN  SetFrom([k \in 1..Len(ui) |-> Tail(ui[k])], <<>>)

\* the definitions of the record pullUI serializes
LibIncluded(all, uis, rec) ==
  IF Len(FetchProductModels(<<rec>>, all, IF all THEN {} ELSE ModelNames(uis))) = 0 THEN {}
  ELSE {k \in 1..Len(rec.defs) : IncludeUiName(all, uis, rec.Name, rec.defs[k])}

FilterIdle ==
  /\ members = <<>> /\ filterRecord = [Name |-> "", defs |-> <<>>]
  /\ libIncluded = {} /\ cliIncluded = {} /\ libPc = "off" /\ cliPc = "off"
  /\ pmlDocument = "ok" /\ cliFiles = {}

FilterStart ==
  /\ members \in MemberLists
  /\ filterRecord \in FilterRecords
  /\ libIncluded = {} /\ cliIncluded = {} /\ libPc = "ready" /\ cliPc = "ready"
  /\ pmlDocument \in PmlDocuments /\ cliFiles = {}

\* pullUI over the record
FilterPullUI ==
  /\ libPc = "ready"
  /\ libIncluded' = LibIncluded(LibDumpAll(members), LibUisToDump(members), filterRecord)
  /\ libPc' = "done"
  /\ UNCHANGED <<members, filterRecord, cliIncluded, cliPc, pmlDocument, cliFiles>>

\* Pull.run up to the end of fetchPml: the query of the product models,
\* the return when it finds none, and fetchPml over those it found
FilterFetchPml ==
  /\ cliPc = "ready"
  /\ LET productModels == CliFetchProductModels(members, <<filterRecord>>)
         pml == CliFetchPml(members, productModels, pmlDocument)
     IN  /\ cliPc' = IF Len(productModels) = 0 THEN "done"
                     ELSE IF pml.rejected THEN "rejected"
                     ELSE "pml"
         /\ cliFiles' = IF Len(productModels) = 0 THEN {} ELSE pml.files
  /\ UNCHANGED <<members, filterRecord, libIncluded, cliIncluded, libPc, pmlDocument>>

\* Pull.fetchUiDefinitions over the product models, once fetchPml is through
FilterFetchUiDefinitions ==
  /\ cliPc = "pml"
  /\ cliIncluded' = CliIncluded(members, filterRecord)
  /\ cliPc' = "done"
  /\ UNCHANGED <<members, filterRecord, libIncluded, libPc, pmlDocument, cliFiles>>

(***************************************************************************)
(* PUSH ORCHESTRATOR (pushUI)                                              *)
(***************************************************************************)
\* remote ids are tuples; NoId is an absent id (undefined)
NoId == <<>>
ExistingFolderId == <<"folder", "existing">>
CreatedFolderId == <<"folder", "created">>
DocId(Name) == <<"doc", Name>>
CreatedDocId(Name) == <<"created", Name>>

\* a record to push: whether building and encoding its definitions works
\* (pack) and whether the document it references exists (doc)
PushRecords(i) ==
  {[Name |-> RecordNames[i], UiDefinitionsId |-> DocId(RecordNames[i]), pack |-> p, doc |-> d] :
     p \in {"ok", "throws"}, d \in {"exists", "none"}}

PushBatches ==
  UNION {{rs \in [1..n -> UNION {PushRecords(i) : i \in 1..n}] :
            \A i \in 1..n : rs[i] \in PushRecords(i)} : n \in 0..MaxBatch}

\* fetchDocument(conn, id): the id of the document found, NoId when none
FetchDocument(docs, id) == IF id \in docs THEN id ELSE NoId

\* a remote call: by is 0 for pushUI itself and i for the task of record i,
\* n counts the calls of the same operation by the same caller, phase is
\* the position of pushUI when the call is issued
Call(op, by, id, folder, phase, log) ==
  [op |-> op, by |-> by, id |-> id, folder |-> folder, phase |-> phase,
   n |-> Cardinality({c \in log : c.op = op /\ c.by = by}) + 1]

\* a plausible slip: the folder is created without looking at the lookup
AfterFetchFolderAlwaysCreate(id) == "createFolder"

\* if (!folderId) { createFolder } : the next step after fetchFolder
AfterFetchFolder(id) == IF id = NoId THEN "createFolder" ELSE "fanout"

\* a plausible slip: the document is always created
WriteOpAlwaysCreate(documentId) == "createDocument"

\* document?.Id ? updateDocument(...) : createDocument(...)
WriteOp(documentId) == IF documentId # NoId THEN "updateDocument" ELSE "createDocument"

\* the records the synchronous map reaches: it stops at the first record
\* whose pack, stringify or gzip throws
Started(batch) ==
  LET throwing == {i \in 1..Len(batch) : batch[i].pack = "throws"}
  IN  IF throwing = {} THEN 1..Len(batch)
      ELSE 1..((CHOOSE i \in throwing : \A j \in throwing : i <= j) - 1)

PushIdle ==
  /\ pushBatch = <<>> /\ remoteFolder = NoId /\ remoteDocs = {} /\ folderId = NoId
  /\ pushPc = "off" /\ pushErr = "" /\ taskPc = <<>> /\ calls = {}

PushStart ==
  /\ pushBatch = <<>> /\ remoteFolder \in {NoId, ExistingFolderId} /\ remoteDocs = {}
  /\ folderId = NoId /\ pushPc = "start" /\ pushErr = "" /\ taskPc = <<>> /\ calls = {}

\* await fetchProductModels(...)
PushFetchProductModels ==
  /\ pushPc = "start"
  /\ \E batch \in PushBatches :
       /\ pushBatch' = batch
       /\ remoteDocs' = {batch[i].UiDefinitionsId : i \in {j \in 1..Len(batch) : batch[j].doc = "exists"}}
       /\ taskPc' = [i \in 1..Len(batch) |-> "unstarted"]
  /\ pushPc' = "fetchFolder"
  /\ UNCHANGED <<remoteFolder, folderId, pushErr, calls>>

\* folderId = (await fetchFolder(conn, FOLDER_NAME))?.Id
PushFetchFolder ==
  /\ pushPc = "fetchFolder"
  /\ calls' = calls \cup {Call("fetchFolder", 0, remoteFolder, NoId, pushPc, calls)}
  /\ \/ /\ folderId' = remoteFolder
        /\ pushPc' = AfterFetchFolder(remoteFolder)
        /\ pushErr' = pushErr
     \/ /\ folderId' = folderId
        /\ pushPc' = "rejected"
        /\ pushErr' = "folder"
  /\ UNCHANGED <<pushBatch, remoteFolder, remoteDocs, taskPc>>

\* folderId = (await createFolder(conn, FOLDER_NAME))?.id : the call
\* answers the new folder, answers nothing or something without an id
\* (`?.id` is then undefined and pushUI goes on to the fan-out with it), or
\* rejects. The id recorded in the call is the id answered.
PushCreateFolder ==
  /\ pushPc = "createFolder"
  /\ \/ \E id \in {CreatedFolderId, NoId} :
          /\ calls' = calls \cup {Call("createFolder", 0, id, NoId, pushPc, calls)}
          /\ folderId' = id
          /\ remoteFolder' = IF remoteFolder = NoId THEN id ELSE remoteFolder
          /\ pushPc' = "fanout"
          /\ pushErr' = pushErr
     \/ /\ calls' = calls \cup {Call("createFolder", 0, NoId, NoId, pushPc, calls)}
        /\ folderId' = folderId
        /\ remoteFolder' = remoteFolder
        /\ pushPc' = "rejected"
        /\ pushErr' = "folder"
  /\ UNCHANGED <<pushBatch, remoteDocs, taskPc>>

\* the fetchDocument calls issued by the map over the records in st.started
RECURSIVE FanOutCalls(_, _, _, _)
FanOutCalls(batch, started, i, log) ==
  IF i \notin started THEN log
  ELSE FanOutCalls(batch, started, i + 1,
         log \cup {Call("fetchDocument", i, batch[i].UiDefinitionsId, NoId, "fanout", log)})

\* productModels.map(...): synchronous; each record is packed, encoded and
\* its fetchDocument issued, in order; a throw ends the map and pushUI
PushFanOut ==
  /\ pushPc = "fanout"
  /\ taskPc' = [i \in 1..Len(pushBatch) |->
                  IF i \in Started(pushBatch) THEN "lookup" ELSE "unstarted"]
  /\ calls' = FanOutCalls(pushBatch, Started(pushBatch), 1, calls)
  /\ IF Started(pushBatch) = 1..Len(pushBatch)
     THEN pushPc' = "awaiting" /\ pushErr' = pushErr
     ELSE pushPc' = "rejected" /\ pushErr' = "pack"
  /\ UNCHANGED <<pushBatch, remoteFolder, remoteDocs, folderId>>

\* fetchDocument of record i settles: the update or the create is issued,
\* or the lookup has failed
PushLookupSettles(i) ==
  /\ taskPc[i] = "lookup"
  /\ \/ /\ LET documentId == FetchDocument(remoteDocs, pushBatch[i].UiDefinitionsId)
           IN  calls' = calls \cup
                 {Call(WriteOp(documentId), i,
                       IF WriteOp(documentId) = "updateDocument" THEN documentId
                       ELSE CreatedDocId(pushBatch[i].Name),
                       folderId, pushPc, calls)}
        /\ taskPc' = [taskPc EXCEPT ![i] = "write"]
     \/ /\ calls' = calls
        /\ taskPc' = [taskPc EXCEPT ![i] = "failed"]
  /\ UNCHANGED <<pushBatch, remoteFolder, remoteDocs, folderId, pushPc, pushErr>>

\* updateDocument or createDocument of record i settles
PushWriteSettles(i) ==
  /\ taskPc[i] = "write"
  /\ \/ /\ taskPc' = [taskPc EXCEPT ![i] = "done"]
        /\ remoteDocs' = remoteDocs \cup
             {c.id : c \in {d \in calls : d.by = i /\ d.op = "createDocument"}}
     \/ /\ taskPc' = [taskPc EXCEPT ![i] = "failed"]
        /\ remoteDocs' = remoteDocs
  /\ UNCHANGED <<pushBatch, remoteFolder, folderId, pushPc, pushErr, calls>>

\* Promise.all resolves once every task is done
PushResolves ==
  /\ pushPc = "awaiting"
  /\ \A i \in DOMAIN taskPc : taskPc[i] = "done"
  /\ pushPc' = "resolved"
  /\ UNCHANGED <<pushBatch, remoteFolder, remoteDocs, folderId, pushErr, taskPc, calls>>

\* Promise.all rejects as soon as one task has failed
PushRejects ==
  /\ pushPc = "awaiting"
  /\ \E i \in DOMAIN taskPc : taskPc[i] = "failed"
  /\ pushPc' = "rejected"
  /\ pushErr' = "task"
  /\ UNCHANGED <<pushBatch, remoteFolder, remoteDocs, folderId, taskPc, calls>>

CodecIdle ==
  /\ plain = <<>> /\ wire = <<>> /\ received = <<>>
  /\ decoded = [ok |-> FALSE, data |-> <<>>]
  /\ codecPc = "off" /\ strips = 0

CodecStart ==
  /\ plain \in SeqsUpTo(PlainAlphabet, MaxPlainLen) \cup DocumentTexts
  /\ wire = <<>> /\ received = <<>>
  /\ decoded = [ok |-> FALSE, data |-> <<>>]
  /\ codecPc = "plain" /\ strips = 0

\* push: the document body is built and stored
CodecEncode ==
  /\ codecPc = "plain"
  /\ wire' = Encode(plain)
  /\ codecPc' = "encoded"
  /\ UNCHANGED <<plain, received, decoded, strips>>

\* the platform serves the body with one base64 layer removed
TransportStripOne ==
  /\ codecPc = "encoded"
  /\ received' = BufferFromBase64(wire)
  /\ strips' = 1
  /\ codecPc' = "received"
  /\ UNCHANGED <<plain, wire, decoded>>

\* a harness hands the stored body to the decoder unchanged
TransportStripNone ==
  /\ codecPc = "encoded"
  /\ received' = wire
  /\ strips' = 0
  /\ codecPc' = "received"
  /\ UNCHANGED <<plain, wire, decoded>>

\* pull: the body is decoded
CodecDecode ==
  /\ codecPc = "received"
  /\ decoded' = Decode(received)
  /\ codecPc' = "decoded"
  /\ UNCHANGED <<plain, wire, received, strips>>

vars == <<codecVars, saveVars, pullVars, pushVars, filterVars>>

(***************************************************************************)
(* The pull: pullUI over the records of an org.                            *)
(***************************************************************************)
Init == PullStart /\ PushIdle /\ SaveIdle /\ CodecIdle /\ FilterIdle

PullFetchProductModelsStep == PullFetchProductModels /\ UNCHANGED <<pushVars, saveVars, codecVars, filterVars>>
PullFetchSettlesStep == (\E i \in DOMAIN fetchSt : PullFetchSettles(i)) /\ UNCHANGED <<pushVars, saveVars, codecVars, filterVars>>
PullFetchRejectsStep == PullFetchRejects /\ UNCHANGED <<pushVars, saveVars, codecVars, filterVars>>
PullContentsReadyStep == PullContentsReady /\ UNCHANGED <<pushVars, saveVars, codecVars, filterVars>>
PullProcessRecordStep == PullProcessRecord /\ UNCHANGED <<pushVars, saveVars, codecVars, filterVars>>
PullReturnStep == PullReturn /\ UNCHANGED <<pushVars, saveVars, codecVars, filterVars>>

Next ==
  \/ PullFetchProductModelsStep
  \/ PullFetchSettlesStep
  \/ PullFetchRejectsStep
  \/ PullContentsReadyStep
  \/ PullProcessRecordStep
  \/ PullReturnStep

Spec == Init /\ [][Next]_vars

(***************************************************************************)
(* The push: pushUI over the records of an org.                            *)
(***************************************************************************)
InitPush == PushStart /\ PullIdle /\ SaveIdle /\ CodecIdle /\ FilterIdle

PushFetchProductModelsStep == PushFetchProductModels /\ UNCHANGED <<pullVars, saveVars, codecVars, filterVars>>
PushFetchFolderStep == PushFetchFolder /\ UNCHANGED <<pullVars, saveVars, codecVars, filterVars>>
PushCreateFolderStep == PushCreateFolder /\ UNCHANGED <<pullVars, saveVars, codecVars, filterVars>>
PushFanOutStep == PushFanOut /\ UNCHANGED <<pullVars, saveVars, codecVars, filterVars>>
PushLookupSettlesStep == (\E i \in DOMAIN taskPc : PushLookupSettles(i)) /\ UNCHANGED <<pullVars, saveVars, codecVars, filterVars>>
PushWriteSettlesStep == (\E i \in DOMAIN taskPc : PushWriteSettles(i)) /\ UNCHANGED <<pullVars, saveVars, codecVars, filterVars>>
PushResolvesStep == PushResolves /\ UNCHANGED <<pullVars, saveVars, codecVars, filterVars>>
PushRejectsStep == PushRejects /\ UNCHANGED <<pullVars, saveVars, codecVars, filterVars>>

NextPush ==
  \/ PushFetchProductModelsStep
  \/ PushFetchFolderStep
  \/ PushCreateFolderStep
  \/ PushFanOutStep
  \/ PushLookupSettlesStep
  \/ PushWriteSettlesStep
  \/ PushResolvesStep
  \/ PushRejectsStep

SpecPush == InitPush /\ [][NextPush]_vars

(***************************************************************************)
(* The codec: one text through encode, transport and decode.               *)
(***************************************************************************)
InitCodec == CodecStart /\ PullIdle /\ PushIdle /\ SaveIdle /\ FilterIdle

CodecEncodeStep == CodecEncode /\ UNCHANGED <<pullVars, pushVars, saveVars, filterVars>>
TransportStripOneStep == TransportStripOne /\ UNCHANGED <<pullVars, pushVars, saveVars, filterVars>>
TransportStripNoneStep == TransportStripNone /\ UNCHANGED <<pullVars, pushVars, saveVars, filterVars>>
CodecDecodeStep == CodecDecode /\ UNCHANGED <<pullVars, pushVars, saveVars, filterVars>>

NextCodec ==
  \/ CodecEncodeStep
  \/ TransportStripOneStep
  \/ TransportStripNoneStep
  \/ CodecDecodeStep

SpecCodec == InitCodec /\ [][NextCodec]_vars

(***************************************************************************)
(* The serializer: one definition through the Detector dispatch.           *)
(***************************************************************************)
InitSave == SaveStart /\ PullIdle /\ PushIdle /\ CodecIdle /\ FilterIdle

SaveLegacyStep == SaveLegacy /\ UNCHANGED <<pullVars, pushVars, codecVars, filterVars>>
SaveModernStep == SaveModern /\ UNCHANGED <<pullVars, pushVars, codecVars, filterVars>>

NextSave == SaveLegacyStep \/ SaveModernStep

SpecSave == InitSave /\ [][NextSave]_vars

(***************************************************************************)
(* The inclusion filter: one selection and one record through both pulls.  *)
(***************************************************************************)
InitFilter == FilterStart /\ PullIdle /\ PushIdle /\ SaveIdle /\ CodecIdle

FilterPullUIStep == FilterPullUI /\ UNCHANGED <<pullVars, pushVars, saveVars, codecVars>>
FilterFetchPmlStep == FilterFetchPml /\ UNCHANGED <<pullVars, pushVars, saveVars, codecVars>>
FilterFetchUiDefinitionsStep == FilterFetchUiDefinitions /\ UNCHANGED <<pullVars, pushVars, saveVars, codecVars>>

NextFilter == FilterPullUIStep \/ FilterFetchPmlStep \/ FilterFetchUiDefinitionsStep

SpecFilter == InitFilter /\ [][NextFilter]_vars

(***************************************************************************)
(* What the claims talk about                                              *)
(***************************************************************************)
\* the files and directories of fs below dir
FilesUnder(fs, dir) ==
  {p \in DOMAIN fs.files : Len(p) > Len(dir) /\ SubSeq(p, 1, Len(dir)) = dir}
DirsUnder(fs, dir) ==
  {p \in fs.dirs : Len(p) >= Len(dir) /\ SubSeq(p, 1, Len(dir)) = dir}

\* the declared name of an element, undefined when it has no script or the
\* script no declaration
NameOf(el) ==
  IF Has(el, "script") THEN ExtractElementMetadata(FromBase64(el.script)).name ELSE UNDEF
Unnamed(el) == Has(el, "script") /\ UNDEF = NameOf(el)
Named(el) == ~(UNDEF = NameOf(el))

\* the names of the named elements of a child list, in order
RECURSIVE NamesOf(_)
NamesOf(children) ==
  IF Len(children) = 0 THEN <<>>
  ELSE (IF Named(children[1]) THEN <<NameOf(children[1])>> ELSE <<>>) \o NamesOf(Tail(children))

RECURSIVE HasUnnamed(_)
HasUnnamed(children) ==
  \E k \in 1..Len(children) :
    Unnamed(children[k]) \/ (Named(children[k]) /\ HasUnnamed(children[k].children))

\* a modern definition is written completely below uiDir
ModernComplete(fs, uiDir, ui) ==
  /\ Append(uiDir, "metadata.json") \in DOMAIN fs.files
  /\ fs.files[Append(uiDir, "metadata.json")][2].children = NamesOf(ui.children)
  /\ \A k \in 1..Len(ui.children) :
       Named(ui.children[k]) =>
         LET el == ui.children[k]
             elDir == Append(uiDir, NameOf(el))
         IN  /\ elDir \in fs.dirs
             /\ Append(elDir, "script.ts") \in DOMAIN fs.files
             /\ Has(el, "styles") => Append(elDir, "styles.css") \in DOMAIN fs.files
             /\ Has(el, "template") => Append(elDir, "template.html") \in DOMAIN fs.files

\* the sections of a tab form a tree: every parentId is absent, null or the
\* id of a section of the tab, and following parents ends at a root
IsRoot(s) == Nullish(Get(s, "parentId"))
ParentOf(sections, s) == CHOOSE k \in 1..Len(sections) : StrictEq(s.parentId, sections[k].id)
RECURSIVE ReachesRoot(_, _, _)
ReachesRoot(sections, s, fuel) ==
  \/ IsRoot(s)
  \/ /\ fuel > 0
     /\ \E k \in 1..Len(sections) : StrictEq(s.parentId, sections[k].id)
     /\ ReachesRoot(sections, sections[ParentOf(sections, s)], fuel - 1)
ValidTree(sections) ==
  \A k \in 1..Len(sections) : ReachesRoot(sections, sections[k], Len(sections))

\* the labels from the root of the tree down to s
RECURSIVE LabelsTo(_, _)
LabelsTo(sections, s) ==
  IF IsRoot(s) THEN <<s.label>>
  ELSE Append(LabelsTo(sections, sections[ParentOf(sections, s)]), s.label)

TabSections(ui, tab) ==
  LET OnTab(section) == section.page = tab.id
  IN  SelectSeq(ui.sections, OnTab)

\* section s of a tab is laid out below uiDir/tab/…/label, all its blobs
\* written there, and has its entry in the emitted metadata
SectionLaidOut(fs, entries, uiDir, tab, sections, s) ==
  LET dir == Append(uiDir, tab.name) \o LabelsTo(sections, s)
  IN  /\ \A blob \in BlobNames \cap DOMAIN s :
           Append(dir, FileName(s, blob)) \in DOMAIN fs.files
      /\ \E k \in 1..Len(entries) : entries[k].id = s.id

\* a legacy definition whose tabs hold trees is laid out completely
LegacyLaidOut(fs, entries, uiDir, ui) ==
  \A t \in 1..Len(ui.tabs) :
    LET sections == TabSections(ui, ui.tabs[t])
    IN  ValidTree(sections) =>
          \A k \in 1..Len(sections) :
            SectionLaidOut(fs, entries, uiDir, ui.tabs[t], sections, sections[k])

\* ---- pull
RecPath(i) == Append(SourcePath, pullBatch[i].Name)
Unparsable(i) == pullBatch[i].doc = "ok" /\ ~pullBatch[i].content.json
Parsable(i) == pullBatch[i].doc = "ok" /\ pullBatch[i].content.json
Recognised(ui) == IsLegacyDefinition(ui) \/ Has(ui, "children")
IncludedDefs(i) ==
  {k \in 1..Len(pullBatch[i].content.defs) :
     IncludeUiName(dumpAll, uisToDump, pullBatch[i].Name, pullBatch[i].content.defs[k])}
WellShaped(i) == \A k \in IncludedDefs(i) : Recognised(pullBatch[i].content.defs[k])

\* the entries of the aggregated metadata.json of record i
AggregatedMetadata(i) ==
  IF Append(RecPath(i), "metadata.json") \in DOMAIN pullFs.files
  THEN pullFs.files[Append(RecPath(i), "metadata.json")][2]
  ELSE <<>>

\* definition ui of record i is serialized completely
DefComplete(i, ui) ==
  IF IsLegacyDefinition(ui)
  THEN \E m \in 1..Len(AggregatedMetadata(i)) :
         /\ AggregatedMetadata(i)[m].name = ui.name
         /\ LegacyLaidOut(pullFs, AggregatedMetadata(i)[m].sections,
                          Append(RecPath(i), ui.name), ui)
  ELSE ModernComplete(pullFs, Append(RecPath(i), ui.name), ui)

RecordComplete(i) ==
  \A k \in IncludedDefs(i) : DefComplete(i, pullBatch[i].content.defs[k])

Reported(i) ==
  \E l \in 1..Len(pullLog) :
    pullLog[l] = <<"Failed to parse document content: ", pullBatch[i].Name>>

PullEnded == pullPc \in {"done", "rejected"}

\* C1: with all fetches successful, a record whose content does not parse
\* gets nothing written and is reported by name, the parse failure never
\* ends the pull, and every other record the loop has passed is serialized
\* completely, wherever the failing record stands in the batch.
C1_ParseFailureIsolated ==
  /\ (pullPc = "rejected" /\ pullErr = "serialize") => Parsable(pullIdx)
  /\ \A i \in 1..Len(pullBatch) :
       (pullPc \in {"processing", "done", "rejected"} /\ pullErr # "fetch" /\ i < pullIdx) =>
         IF Unparsable(i)
         THEN /\ FilesUnder(pullFs, RecPath(i)) = {}
              /\ DirsUnder(pullFs, RecPath(i)) = {}
              /\ Reported(i)
         ELSE RecordComplete(i) /\ ~Reported(i)
  /\ pullPc = "done" => pullIdx = Len(pullBatch) + 1

C1_Witness ==
  /\ pullPc = "done" /\ Len(pullBatch) = 3
  /\ Parsable(1) /\ Unparsable(2) /\ Parsable(3)
  /\ Reported(2) /\ FilesUnder(pullFs, RecPath(2)) = {}
  /\ IncludedDefs(1) # {} /\ IncludedDefs(3) # {}
  /\ RecordComplete(1) /\ RecordComplete(3)
  /\ FilesUnder(pullFs, RecPath(3)) # {}

\* C2: a record whose fetch or transport decode fails is the only one to
\* lose its output: every other record whose document is served and
\* well-formed is parsed and written.
C2_FetchFailureConfined ==
  (PullEnded /\ pullErr # "serialize") =>
    \A i \in 1..Len(pullBatch) : (Parsable(i) /\ WellShaped(i)) => RecordComplete(i)

\* C10: a definition of unrecognised shape is skipped on its own: the
\* recognised definitions of the same record, before and after it, and the
\* other records are still serialized.
C10_UnrecognisedSkipped ==
  (PullEnded /\ pullErr # "fetch") =>
    \A i \in 1..Len(pullBatch) :
      Parsable(i) =>
        \A k \in IncludedDefs(i) :
          Recognised(pullBatch[i].content.defs[k]) =>
            DefComplete(i, pullBatch[i].content.defs[k])

\* ---- push
WritesOf(i) == {c \in calls : c.by = i /\ c.op \in {"updateDocument", "createDocument"}}
FolderCalls == {c \in calls : c.op \in {"fetchFolder", "createFolder"}}
DocumentCalls == calls \ FolderCalls

\* C3: a record whose pack, stringify or encode throws does not keep the
\* other records of the batch from being started.
C3_PackFailureIsolated ==
  pushErr = "pack" =>
    \A i \in 1..Len(pushBatch) : pushBatch[i].pack = "ok" => taskPc[i] # "unstarted"

\* C4: a record gets at most one remote write, exactly one once its lookup
\* has answered: an update of the document its reference names when that
\* document exists, otherwise a create in the container folder; never both,
\* and never a create for a record whose document exists.
C4_OneWritePerRecord ==
  \A i \in 1..Len(pushBatch) :
    /\ Cardinality(WritesOf(i)) <= 1
    /\ taskPc[i] \in {"write", "done"} => Cardinality(WritesOf(i)) = 1
    /\ taskPc[i] \in {"unstarted", "lookup"} => WritesOf(i) = {}
    /\ \A c \in WritesOf(i) :
         /\ c.n = 1
         /\ IF pushBatch[i].doc = "exists"
            THEN c.op = "updateDocument" /\ c.id = pushBatch[i].UiDefinitionsId
            ELSE c.op = "createDocument" /\ c.folder = folderId

C4_Witness ==
  /\ pushPc = "resolved"
  /\ \E i, j \in 1..Len(pushBatch) :
       /\ \E c \in WritesOf(i) : c.op = "updateDocument"
       /\ \E c \in WritesOf(j) : c.op = "createDocument"

\* C5: the container folder is looked up at most once and created at most
\* once, only when the lookup found none, by pushUI itself and before any
\* task of a record starts; every create uses the folder id so resolved:
\* the id the lookup found or, when it found none, the id createFolder
\* answered (undefined when it answered none).
C5_FolderResolvedOnce ==
  /\ \A c \in FolderCalls :
       c.n = 1 /\ c.by = 0 /\ c.phase \in {"fetchFolder", "createFolder"}
  /\ Cardinality(FolderCalls) <= 2
  /\ \A c \in FolderCalls :
       c.op = "createFolder" =>
         \E f \in FolderCalls : f.op = "fetchFolder" /\ f.id = NoId
  /\ \A c \in DocumentCalls :
       /\ c.by \in 1..Len(pushBatch)
       /\ c.phase \in {"fanout", "awaiting", "resolved", "rejected"}
       /\ \E f \in FolderCalls :
            /\ f.op = "fetchFolder"
            /\ f.id # NoId \/ \E g \in FolderCalls : g.op = "createFolder"
  /\ (\E i \in DOMAIN taskPc : taskPc[i] # "unstarted") =>
       pushPc \in {"awaiting", "resolved", "rejected"}
  /\ \A c \in DocumentCalls :
       c.op = "createDocument" =>
         /\ c.folder = folderId
         /\ \E f \in FolderCalls :
              /\ f.id = folderId
              /\ f.op = "createFolder" \/ f.id # NoId
         /\ c.folder = ExistingFolderId <=> remoteFolder = ExistingFolderId

C5_Witness ==
  /\ Len(pushBatch) >= 2
  /\ \E c \in FolderCalls : c.op = "createFolder"
  /\ Cardinality({c \in DocumentCalls : c.op = "createDocument" /\ c.folder = CreatedFolderId}) >= 2

\* ---- serializer
SaveDir == Append(SaveRoot, saveUi.name)

\* C7: an element whose script declares no name leaves no directory and no
\* file and is not listed, while its named siblings are written and listed.
C7_UnnamedElementSkipped ==
  (savePc = "saved" /\ Has(saveUi, "children")) =>
    /\ \A p \in saveFs.dirs \cup DOMAIN saveFs.files :
         \A k \in 1..Len(p) : p[k] # Render(UNDEF)
    /\ ModernComplete(saveFs, SaveDir, saveUi)

\* C8: when the sections of a tab form a tree whose roots have parentId
\* null or absent, every section is laid out below its parent's directory
\* (A/B/C for the chain 1 <- 2 <- 3), with its files.
C8_LegacyNesting ==
  (savePc = "saved" /\ IsLegacyDefinition(saveUi)) =>
    LegacyLaidOut(saveFs, saveMeta[1].sections, SaveDir, saveUi)

\* the URL fields of a metadata entry: what the serializer added to the
\* section
UrlFields(entry, section) == DOMAIN entry \ DOMAIN section

\* C9: the metadata entry of a serialized section retains none of the inline
\* blobs the section carries and references, for each of them, the file
\* written for it.
C9_BlobsReplacedByUrls ==
  (savePc = "saved" /\ IsLegacyDefinition(saveUi)) =>
    \A m \in 1..Len(saveMeta[1].sections) :
      LET entry == saveMeta[1].sections[m]
          section == saveUi.sections[CHOOSE k \in 1..Len(saveUi.sections) :
                                       saveUi.sections[k].id = entry.id]
      IN  \A blob \in {b \in BlobNames : Truthy(Get(section, b))} :
            /\ blob \notin DOMAIN entry
            /\ \E f \in UrlFields(entry, section) :
                 /\ entry[f] \in DOMAIN saveFs.files
                 /\ entry[f][Len(entry[f])] = FileName(section, blob)

\* ---- legacy round trip
\* the sections of a definition form a valid tree: every parentId is absent
\* or the id of a section of the definition, and following parents ends at
\* a section without parentId
HasParent(s) == Has(s, "parentId")
Resolves(sections, s) == \E k \in 1..Len(sections) : StrictEq(s.parentId, sections[k].id)
RECURSIVE ReachesAbsentRoot(_, _, _)
ReachesAbsentRoot(sections, s, fuel) ==
  \/ ~HasParent(s)
  \/ /\ fuel > 0
     /\ Resolves(sections, s)
     /\ ReachesAbsentRoot(sections, sections[ParentOf(sections, s)], fuel - 1)
ValidDefinitionTree(sections) ==
  \A k \in 1..Len(sections) : ReachesAbsentRoot(sections, sections[k], Len(sections))

\* the entries of the emitted section list that stand for section s: same
\* id, page and parentId
EntriesOf(entries, s) ==
  {m \in 1..Len(entries) :
     /\ entries[m].id = s.id
     /\ entries[m].page = s.page
     /\ StrictEq(Get(entries[m], "parentId"), Get(s, "parentId"))}

\* C11: for a legacy definition whose sections form a valid tree, the
\* section list recorded in the metadata holds every section of the
\* definition exactly once, with its page, id and parentId, and nothing else.
C11_LegacyPartitionKept ==
  (savePc = "saved" /\ IsLegacyDefinition(saveUi) /\ ValidDefinitionTree(saveUi.sections)) =>
    /\ Len(saveMeta[1].sections) = Len(saveUi.sections)
    /\ \A k \in 1..Len(saveUi.sections) :
         Cardinality(EntriesOf(saveMeta[1].sections, saveUi.sections[k])) = 1

\* ---- inclusion filter
\* C12: for every selection and every record, pullUI and
\* Pull.fetchUiDefinitions include the same definitions of the record.
C12_SameInclusionFilter ==
  (libPc = "done" /\ cliPc = "done") => libIncluded = cliIncluded

\* C6 (as stated): decode(encode(x)) = x whether the transport strips one
\* base64 layer or none.
C6_RoundTripAnyTransport ==
  codecPc = "decoded" => decoded.ok /\ decoded.data = plain

\* C6 (amended): decode(encode(x)) = x when the transport strips exactly one
\* base64 layer; when it strips none the decoder fails (gunzipSync throws).
C6_RoundTripOneStrip ==
  codecPc = "decoded" =>
    /\ strips = 1 => decoded.ok /\ decoded.data = plain
    /\ strips = 0 => ~decoded.ok

C6_Witness ==
  /\ codecPc = "decoded" /\ strips = 1
  /\ plain = TemplateDocumentText /\ decoded.ok /\ decoded.data = plain

====
